---- MODULE Spec2Model ----
(***************************************************************************)
(* Model of the query pipeline of the RAG document assistant:              *)
(*   src/src/core/cache_manager.py      SimpleCacheManager                 *)
(*   src/src/services/guardrails.py     QueryGuardrails                    *)
(*   src/src/services/retrieval_service.py  RagRetrievalService            *)
(* Text is modelled as a sequence of one-character strings, so that        *)
(* lower(), strip(), len() and the regular-expression searches are         *)
(* computed rather than assumed.                                           *)
(***************************************************************************)
EXTENDS Integers, Sequences, FiniteSets, TLC

VARIABLES
    cache,          \* SimpleCacheManager.cache : key -> [data, timestamp]
    now,            \* the reading of time.time()
    chatSessions,   \* RagRetrievalService.chatSessions : sessionId -> turns
    hit_count,      \* SimpleCacheManager._hit_count (set by process_query)
    total_requests, \* SimpleCacheManager._total_requests
    query,          \* argument of the pure guardrail functions under check
    args,           \* arguments of the other pure functions under check
    llm,            \* OllamaLlmClient._call_ollama_api in progress: position,
                    \* attempt number, requests and sleeps so far, result
    threads,        \* per caller thread: position in the call in progress
                    \* and its local variables
    ret,            \* record of the last call made at the current clock
                    \* reading: arguments, result, stages run
    cacheHist,      \* history: the most recent direct cache.set (or NoCall)
    nCalls,         \* number of process_query calls made so far
    appends,        \* history: per session id, the appends made to it since
                    \* it was last absent from chatSessions
    rerankerEnabled \* SimpleReranker.enabled

vars == <<cache, now, chatSessions, hit_count, total_requests, query, args,
          llm, threads, ret, cacheHist, nCalls, appends, rerankerEnabled>>

(***************************************************************************)
(* Text                                                                    *)
(***************************************************************************)
Upper == <<"A","B","C","D","E","F","G","H","I","J","K","L","M",
           "N","O","P","Q","R","S","T","U","V","W","X","Y","Z">>
Lower == <<"a","b","c","d","e","f","g","h","i","j","k","l","m",
           "n","o","p","q","r","s","t","u","v","w","x","y","z">>
Digits == {"0","1","2","3","4","5","6","7","8","9"}

Range(s) == {s[i] : i \in 1..Len(s)}

UpperSet == Range(Upper)
LowerSet == Range(Lower)
LowerMap == [c \in UpperSet |-> Lower[CHOOSE i \in 1..26 : Upper[i] = c]]

\* str.lower() on one character
LowerChar(c) == IF c \in UpperSet THEN LowerMap[c] ELSE c

\* str.lower()
LowerStr(s) == [i \in 1..Len(s) |-> LowerChar(s[i])]

\* the characters str.strip() removes
IsSpace(c) == c \in {" ", "\t", "\n"}

\* str.strip(): drop leading and trailing whitespace
Strip(s) ==
    LET idx == {i \in 1..Len(s) : ~IsSpace(s[i])}
    IN  IF idx = {} THEN <<>>
        ELSE LET first == CHOOSE i \in idx : \A j \in idx : i <= j
                 last  == CHOOSE i \in idx : \A j \in idx : j <= i
             IN  SubSeq(s, first, last)

\* the regular expression class \w
IsWordChar(c) ==
    \/ c \in LowerSet
    \/ c \in UpperSet
    \/ c \in Digits
    \/ c = "_"

\* \b between positions i-1 and i of s (i in 1..Len(s)+1)
WordBoundary(s, i) ==
    LET before == i > 1 /\ IsWordChar(s[i - 1])
        after  == i <= Len(s) /\ IsWordChar(s[i])
    IN  before # after

\* re.search(r'\bw\b', s) for a literal w
SearchWord(s, w) ==
    \E i \in 1..(Len(s) - Len(w) + 1) :
        /\ s[i] = w[1]
        /\ SubSeq(s, i, i + Len(w) - 1) = w
        /\ WordBoundary(s, i)
        /\ WordBoundary(s, i + Len(w))

\* Python's "w in s" for strings
Contains(s, w) ==
    \E i \in 1..(Len(s) - Len(w) + 1) :
        /\ s[i] = w[1]
        /\ SubSeq(s, i, i + Len(w) - 1) = w

\* Python's None
None == [none |-> TRUE]

\* n spaces
Spaces(n) == [i \in 1..n |-> " "]

(***************************************************************************)
(* QueryGuardrails                                                         *)
(***************************************************************************)
\* self.harmfulPatterns: each pattern is \b(w1|w2|...)\b
harmfulPatterns == <<
    { <<"h","a","c","k">>, <<"c","r","a","c","k">>, <<"b","r","e","a","k">>,
      <<"b","y","p","a","s","s">>, <<"e","x","p","l","o","i","t">> },
    { <<"i","l","l","e","g","a","l">>, <<"u","n","l","a","w","f","u","l">>,
      <<"c","r","i","m","i","n","a","l">> },
    { <<"v","i","o","l","e","n","c","e">>, <<"v","i","o","l","e","n","t">>,
      <<"h","a","r","m">>, <<"h","u","r","t">>, <<"k","i","l","l">> },
    { <<"d","r","u","g">>, <<"w","e","a","p","o","n">>, <<"b","o","m","b">>,
      <<"t","e","r","r","o","r","i","s","t">> },
    { <<"p","o","r","n">>, <<"s","e","x","u","a","l">>,
      <<"e","x","p","l","i","c","i","t">> } >>

\* self.offTopicPatterns: each pattern is \bw\b
offTopicPatterns == <<
    <<"w","e","a","t","h","e","r">>,
    <<"s","t","o","c","k"," ","p","r","i","c","e">>,
    <<"n","e","w","s"," ","t","o","d","a","y">>,
    <<"c","u","r","r","e","n","t"," ","e","v","e","n","t","s">>,
    <<"s","p","o","r","t","s"," ","s","c","o","r","e">> >>

\* documentIndicators of is_query_about_documents
documentIndicators == {
    <<"d","o","c","u","m","e","n","t">>, <<"p","d","f">>, <<"f","i","l","e">>,
    <<"p","a","p","e","r">>, <<"r","e","p","o","r","t">>, <<"t","e","x","t">>,
    <<"c","o","n","t","e","n","t">>, <<"w","h","a","t"," ","d","o","e","s">>,
    <<"a","c","c","o","r","d","i","n","g"," ","t","o">>,
    <<"m","e","n","t","i","o","n","e","d">>, <<"s","t","a","t","e","s">>,
    <<"s","a","y","s">> }

MinQueryLen == 3
MaxQueryLen == 500

ReasonEmpty    == "Query cannot be empty"
ReasonShort    == "Query too short. Please provide a more detailed question."
ReasonLong     == "Query too long. Please keep questions under 500 characters."
ReasonHarmful  == "Query contains inappropriate content. Please ask something else."
ReasonOffTopic == "I can only answer questions about the uploaded documents. Please ask about the document content."
ReasonValid    == "Query passed validation"

\* the loop over harmfulPatterns of validate_query / validate_generated_answer
MatchesHarmful(textLower) ==
    \E p \in 1..Len(harmfulPatterns) :
        \E w \in harmfulPatterns[p] : SearchWord(textLower, w)

\* offTopicMatches of validate_query
OffTopicMatches(queryLower) ==
    Cardinality({p \in 1..Len(offTopicPatterns) :
                    SearchWord(queryLower, offTopicPatterns[p])})

\* QueryGuardrails.is_query_about_documents
is_query_about_documents(q) ==
    \E w \in documentIndicators : Contains(LowerStr(q), w)

\* validate_query with the upper length bound off by one (>= for >)
validate_query_LongOffByOne(q) ==
    IF q = <<>> \/ Strip(q) = <<>>
    THEN [isValid |-> FALSE, reason |-> ReasonEmpty]
    ELSE IF Len(Strip(q)) < MinQueryLen
    THEN [isValid |-> FALSE, reason |-> ReasonShort]
    ELSE IF Len(q) >= MaxQueryLen
    THEN [isValid |-> FALSE, reason |-> ReasonLong]
    ELSE IF MatchesHarmful(LowerStr(q))
    THEN [isValid |-> FALSE, reason |-> ReasonHarmful]
    ELSE IF OffTopicMatches(LowerStr(q)) > 0
    THEN [isValid |-> FALSE, reason |-> ReasonOffTopic]
    ELSE [isValid |-> TRUE, reason |-> ReasonValid]

\* QueryGuardrails.validate_query
validate_query(q) ==
    IF q = <<>> \/ Strip(q) = <<>>
    THEN [isValid |-> FALSE, reason |-> ReasonEmpty]
    ELSE IF Len(Strip(q)) < MinQueryLen
    THEN [isValid |-> FALSE, reason |-> ReasonShort]
    ELSE IF Len(q) > MaxQueryLen
    THEN [isValid |-> FALSE, reason |-> ReasonLong]
    ELSE IF MatchesHarmful(LowerStr(q))
    THEN [isValid |-> FALSE, reason |-> ReasonHarmful]
    ELSE IF OffTopicMatches(LowerStr(q)) > 0
    THEN [isValid |-> FALSE, reason |-> ReasonOffTopic]
    ELSE [isValid |-> TRUE, reason |-> ReasonValid]

(***************************************************************************)
(* The queries the callers of the cache and of the pipeline make           *)
(***************************************************************************)
WordPlan == <<"p","l","a","n">>
WordDocs == <<"d","o","c","s">>
QueryPlanSpaced == <<" ","P","l","a","n"," ">>
QueryDocsSpaced == <<" ","D","o","c","s">>
QueryHi == <<"h","i">>
HackTheServer ==
    <<"h","o","w"," ","d","o"," ","I"," ","h","a","c","k"," ",
      "t","h","e"," ","s","e","r","v","e","r">>
\* "plan" followed by spaces up to MaxQueryLen + 1 characters
QueryPlanLong == WordPlan \o Spaces(MaxQueryLen - 3)

\* the queries stored and the queries looked up by direct callers of the
\* cache: on each side one already in normal form and one that lower() and
\* strip() change
SetQueries == {WordPlan, QueryDocsSpaced}
GetQueries == {QueryPlanSpaced, WordDocs}

\* the queries submitted to process_query
PipelineQueries ==
    {WordPlan, QueryPlanSpaced, QueryPlanLong, QueryHi, <<>>, HackTheServer}

\* what strip(), lower().strip() and validate_query give on these queries,
\* computed once
KnownQueries == SetQueries \cup GetQueries \cup PipelineQueries
QueryFacts ==
    [q \in KnownQueries |->
        [stripped |-> Strip(q), normal |-> Strip(LowerStr(q)),
         verdict |-> validate_query(q)]]

\* query.strip()
stripped(q) ==
    IF q \in KnownQueries THEN QueryFacts[q].stripped ELSE Strip(q)
\* query.lower().strip()
lower_stripped(q) ==
    IF q \in KnownQueries THEN QueryFacts[q].normal ELSE Strip(LowerStr(q))
\* self.guardrails.validate_query(query)
validation(q) ==
    IF q \in KnownQueries THEN QueryFacts[q].verdict ELSE validate_query(q)

PhraseDontKnow == <<"I"," ","d","o","n","'","t"," ","k","n","o","w">>
PhraseDontHave == <<"d","o","n","'","t"," ","h","a","v","e">>
WordDocument == <<"d","o","c","u","m","e","n","t">>
WordSource == <<"s","o","u","r","c","e">>

\* fixed messages are texts of one piece
MsgNoResponse   == <<"I apologize, but I couldn't generate a proper response. Please try rephrasing your question.">>
MsgInsufficient == <<"I don't have enough information in the available documents to answer that question.">>
MsgRefusal      == <<"I cannot provide that information. Please ask about something else.">>

\* ', '.join(pieces)
RECURSIVE JoinComma(_)
JoinComma(ps) ==
    IF Len(ps) = 0 THEN <<>>
    ELSE IF Len(ps) = 1 THEN <<ps[1]>>
    ELSE <<ps[1], ", ">> \o JoinComma(Tail(ps))

\* None where Python expects an int (maxResults is Optional[int])
NoneInt == -1

\* Python's s[:k] for k >= 0 or k = None
Take(s, k) ==
    IF k = NoneInt THEN s
    ELSE SubSeq(s, 1, IF k < Len(s) THEN k ELSE Len(s))

\* validate_generated_answer that checks the harmful patterns on the answer
\* as generated instead of on its lower-cased form
validate_generated_answer_CaseSensitive(generatedAnswer, retrievedContext) ==
    IF generatedAnswer = <<>> \/ Strip(generatedAnswer) = <<>>
    THEN MsgNoResponse
    ELSE IF /\ retrievedContext = <<>>
            /\ ~Contains(generatedAnswer, PhraseDontKnow)
            /\ ~Contains(generatedAnswer, PhraseDontHave)
    THEN MsgInsufficient
    ELSE IF MatchesHarmful(generatedAnswer)
    THEN MsgRefusal
    ELSE IF /\ retrievedContext # <<>>
            /\ ~Contains(LowerStr(generatedAnswer), WordDocument)
            /\ ~Contains(LowerStr(generatedAnswer), WordSource)
    THEN generatedAnswer \o <<" (Based on: ">>
            \o JoinComma([i \in 1..Len(Take(retrievedContext, 2)) |->
                            retrievedContext[i].documentTitle])
            \o <<")">>
    ELSE generatedAnswer

\* QueryGuardrails.validate_generated_answer
validate_generated_answer(generatedAnswer, retrievedContext) ==
    IF generatedAnswer = <<>> \/ Strip(generatedAnswer) = <<>>
    THEN MsgNoResponse
    ELSE IF /\ retrievedContext = <<>>
            /\ ~Contains(generatedAnswer, PhraseDontKnow)
            /\ ~Contains(generatedAnswer, PhraseDontHave)
    THEN MsgInsufficient
    ELSE IF MatchesHarmful(LowerStr(generatedAnswer))
    THEN MsgRefusal
    ELSE IF /\ retrievedContext # <<>>
            /\ ~Contains(LowerStr(generatedAnswer), WordDocument)
            /\ ~Contains(LowerStr(generatedAnswer), WordSource)
    THEN generatedAnswer \o <<" (Based on: ">>
            \o JoinComma([i \in 1..Len(Take(retrievedContext, 2)) |->
                            retrievedContext[i].documentTitle])
            \o <<")">>
    ELSE generatedAnswer

(***************************************************************************)
(* Python dict                                                             *)
(***************************************************************************)
EmptyDict == [k \in {} |-> 0]
Del(d, k) == [x \in (DOMAIN d) \ {k} |-> d[x]]
Put(d, k, v) == [x \in (DOMAIN d) \cup {k} |-> IF x = k THEN v ELSE d[x]]

(***************************************************************************)
(* SimpleCacheManager                                                      *)
(* max_size and ttl_seconds are the constructor's parameters (defaults 100 *)
(* and 300); the model instantiates them small.                            *)
(***************************************************************************)
max_size == 2
ttl_seconds == 2

ModeHybrid == <<"h","y","b","r","i","d">>
ModeElser  == <<"e","l","s","e","r","_","o","n","l","y">>
ModeBm25   == <<"b","m","2","5">>

\* hashlib.md5(content.encode()).hexdigest(): a digest of the content, taken
\* to be free of collisions on the contents the model reaches
Md5(content) == <<"md5", content>>

\* _get_key that leaves the search mode out of the hashed content
get_key_NoMode(q, search_mode) ==
    Md5(lower_stripped(q))

\* SimpleCacheManager._get_key
get_key(q, search_mode) ==
    Md5(lower_stripped(q) \o <<"_">> \o search_mode)

\* cache.get that returns the entry without looking at its age
cache_get_NoExpiry(c, t, q, search_mode) ==
    LET key == get_key(q, search_mode)
    IN  IF key \in DOMAIN c
        THEN [cache |-> c, result |-> c[key].data, outcome |-> "hit"]
        ELSE [cache |-> c, result |-> None, outcome |-> "miss"]

\* cache.get that refreshes the timestamp of the entry it returns (eviction
\* by access time)
cache_get_TouchOnHit(c, t, q, search_mode) ==
    LET key == get_key(q, search_mode)
    IN  IF key \in DOMAIN c
        THEN IF t - c[key].timestamp < ttl_seconds
             THEN [cache |-> [c EXCEPT ![key].timestamp = t],
                   result |-> c[key].data, outcome |-> "hit"]
             ELSE [cache |-> Del(c, key), result |-> None,
                   outcome |-> "expired"]
        ELSE [cache |-> c, result |-> None, outcome |-> "miss"]

\* SimpleCacheManager.get at clock reading t: the cache afterwards and the
\* value returned
cache_get(c, t, q, search_mode) ==
    LET key == get_key(q, search_mode)
    IN  IF key \in DOMAIN c
        THEN IF t - c[key].timestamp < ttl_seconds
             THEN [cache |-> c, result |-> c[key].data, outcome |-> "hit"]
             ELSE [cache |-> Del(c, key), result |-> None,
                   outcome |-> "expired"]
        ELSE [cache |-> c, result |-> None, outcome |-> "miss"]

\* no key
NoKey == <<>>

\* max() in the place of min(): a key of greatest timestamp
OldestKeys_Newest(c) ==
    {k \in DOMAIN c : \A j \in DOMAIN c : c[k].timestamp >= c[j].timestamp}

\* min(self.cache.keys(), key=timestamp): a key of least timestamp (which of
\* several equally old keys min() takes depends on the dict's order; the
\* model allows each)
OldestKeys(c) ==
    {k \in DOMAIN c : \A j \in DOMAIN c : c[k].timestamp <= c[j].timestamp}

\* the keys the eviction of set() may remove: none unless the cache is full
Victims(c) ==
    IF Cardinality(DOMAIN c) >= max_size THEN OldestKeys(c) ELSE {NoKey}

\* cache.set that evicts only once the size is above max_size
cache_set_LateEvict(c, t, q, search_mode, data, victim) ==
    LET c1 == IF Cardinality(DOMAIN c) > max_size /\ victim # NoKey
              THEN Del(c, victim) ELSE c
    IN  Put(c1, get_key(q, search_mode),
            [data |-> data, timestamp |-> t,
             by |-> [q |-> lower_stripped(q), mode |-> search_mode]])

\* SimpleCacheManager.set at clock reading t, evicting victim when full.
\* The field "by" is history: the normalised query and the mode of the call
\* that stored the entry.
cache_set(c, t, q, search_mode, data, victim) ==
    LET c1 == IF Cardinality(DOMAIN c) >= max_size
              THEN Del(c, victim) ELSE c
    IN  Put(c1, get_key(q, search_mode),
            [data |-> data, timestamp |-> t,
             by |-> [q |-> lower_stripped(q), mode |-> search_mode]])

(***************************************************************************)
(* External providers                                                      *)
(***************************************************************************)
\* the hits the search engine holds for a query, best score first
Hits == <<
    [chunkId |-> "c1", documentTitle |-> "Doc A", fileName |-> "a.pdf",
     documentUrl |-> "u/a", content |-> "alpha", score |-> 3],
    [chunkId |-> "c2", documentTitle |-> "Doc B", fileName |-> "b.pdf",
     documentUrl |-> "u/b", content |-> "beta", score |-> 2],
    [chunkId |-> "c3", documentTitle |-> "Doc C", fileName |-> "c.pdf",
     documentUrl |-> "u/c", content |-> "gamma", score |-> 2] >>

\* appSettings.max_retrieval_results
max_retrieval_results == 5

\* ElasticsearchRagClient.hybrid_search; outcome is what the engine did: it
\* raised (connection refused, timeout), or it found some number of hits, of
\* which the first topResults come back. An exception is logged and the
\* empty list returned (lines 195-197).
hybrid_search(topResults, outcome) ==
    LET size == IF topResults = NoneInt THEN max_retrieval_results
                ELSE topResults
    IN  IF outcome.raises THEN <<>>
        ELSE SubSeq(Hits, 1, IF outcome.found < size THEN outcome.found
                             ELSE size)

\* sorted(..., reverse=True) that is not stable: equal keys come out in
\* reverse order
SortDescBy_Unstable(s, keys) ==
    LET pos(i) == 1 + Cardinality({j \in 1..Len(s) :
                        \/ keys[j] > keys[i]
                        \/ (keys[j] = keys[i] /\ j > i)})
    IN  [r \in 1..Len(s) |-> s[CHOOSE i \in 1..Len(s) : pos(i) = r]]

\* sorted(s, key=keys, reverse=True): descending, equal keys keep their order
SortDescBy(s, keys) ==
    LET pos(i) == 1 + Cardinality({j \in 1..Len(s) :
                        \/ keys[j] > keys[i]
                        \/ (keys[j] = keys[i] /\ j < i)})
    IN  [r \in 1..Len(s) |-> s[CHOOSE i \in 1..Len(s) : pos(i) = r]]

\* rerank_results that lets a failure of model.predict empty the result
rerank_results_NoFallback(enabled, results, top_k, predicted) ==
    IF ~enabled \/ Len(results) <= 1
    THEN Take(results, top_k)
    ELSE IF predicted.raises
    THEN <<>>
    ELSE Take(SortDescBy([i \in 1..Len(results) |->
                            results[i] @@ [rerank_score |-> predicted.scores[i]]],
                         predicted.scores), top_k)

\* SimpleReranker.rerank_results; predicted is what model.predict does: it
\* raises, or returns the scores of the candidates
rerank_results(enabled, results, top_k, predicted) ==
    IF ~enabled \/ Len(results) <= 1
    THEN Take(results, top_k)
    ELSE IF predicted.raises
    THEN Take(results, top_k)
    ELSE LET scored == [i \in 1..Len(results) |->
                          [chunkId |-> results[i].chunkId,
                           documentTitle |-> results[i].documentTitle,
                           fileName |-> results[i].fileName,
                           documentUrl |-> results[i].documentUrl,
                           content |-> results[i].content,
                           score |-> results[i].score,
                           rerank_score |-> predicted.scores[i]]]
         IN  Take(SortDescBy(scored, [i \in 1..Len(scored) |->
                                        scored[i].rerank_score]), top_k)

\* RagRetrievalService._simple_rerank_results
simple_rerank_results(results) ==
    SortDescBy(results, [i \in 1..Len(results) |-> results[i].score])

\* OllamaLlmClient._extract_sources
extract_sources(retrievedContext) ==
    [i \in 1..Len(retrievedContext) |->
        [title |-> retrievedContext[i].documentTitle,
         filename |-> retrievedContext[i].fileName,
         url |-> retrievedContext[i].documentUrl,
         snippet |-> <<retrievedContext[i].content, "...">>]]

MsgUnable   == <<"I apologize, but I'm unable to generate an answer right now. Please try again.">>
MsgGenError == <<"I apologize, but I encountered an error while generating the answer.">>

\* OllamaLlmClient.generate_answer; outcome is what the model backend did:
\* an answer, a failure after the retries, or an exception on the way
generate_answer(retrievedContext, outcome) ==
    IF outcome.kind = "ok"
    THEN [success |-> TRUE, answer |-> outcome.answer,
          sources |-> extract_sources(retrievedContext),
          contextUsed |-> Len(retrievedContext) > 0]
    ELSE IF outcome.kind = "failed"
    THEN [success |-> FALSE, error |-> outcome.error, answer |-> MsgUnable]
    ELSE [success |-> FALSE, error |-> outcome.error, answer |-> MsgGenError]

(***************************************************************************)
(* RagRetrievalService                                                     *)
(***************************************************************************)
MaxTurns == 20

MsgEmptyQuery  == <<"Please provide a valid question.">>
MsgGuidelines  == <<"I cannot process this query due to content guidelines.">>
MsgNoResults   == <<"I couldn't find any relevant information to answer your question. Please try rephrasing or ask about something else.">>
MsgGenFallback == <<"I apologize, but I encountered an error generating the answer.">>
MsgInternal    == <<"I apologize, but I encountered an error while processing your query. Please try again.">>
ErrEmptyQuery  == "Empty query provided"
ErrTypeError   == "unsupported operand type(s) for *: 'NoneType' and 'int'"

\* dict.get(key, default)
Get(d, k, default) == IF k \in DOMAIN d THEN d[k] ELSE default

\* _update_chat_session that never truncates
update_chat_session_NoCap(sessions, sessionId, userQuery, assistantAnswer, t) ==
    Put(sessions, sessionId,
        Get(sessions, sessionId, <<>>)
            \o << [role |-> "user", content |-> userQuery, timestamp |-> t],
                  [role |-> "assistant", content |-> assistantAnswer,
                   timestamp |-> t] >>)

\* _update_chat_session that truncates to the oldest turns
update_chat_session_KeepsOldest(sessions, sessionId, userQuery, assistantAnswer, t) ==
    LET new == update_chat_session_NoCap(sessions, sessionId, userQuery,
                                         assistantAnswer, t)[sessionId]
    IN  Put(sessions, sessionId,
            IF Len(new) > MaxTurns THEN SubSeq(new, 1, MaxTurns) ELSE new)

\* _update_chat_session that ignores the session id and writes to one
\* session for all requests
update_chat_session_OneSession(sessions, sessionId, userQuery, assistantAnswer, t) ==
    LET old == Get(sessions, "s1", <<>>)
    IN  Put(sessions, "s1",
            old \o << [role |-> "user", content |-> userQuery,
                       timestamp |-> t],
                      [role |-> "assistant", content |-> assistantAnswer,
                       timestamp |-> t] >>)

\* _update_chat_session that keeps one turn less than the limit
update_chat_session_OddCap(sessions, sessionId, userQuery, assistantAnswer, t) ==
    LET new == update_chat_session_NoCap(sessions, sessionId, userQuery,
                                         assistantAnswer, t)[sessionId]
    IN  Put(sessions, sessionId,
            IF Len(new) > MaxTurns
            THEN SubSeq(new, Len(new) - MaxTurns + 2, Len(new))
            ELSE new)

\* RagRetrievalService._update_chat_session at clock reading t
update_chat_session(sessions, sessionId, userQuery, assistantAnswer, t) ==
    LET old == Get(sessions, sessionId, <<>>)
        new == old \o << [role |-> "user", content |-> userQuery,
                          timestamp |-> t],
                         [role |-> "assistant", content |-> assistantAnswer,
                          timestamp |-> t] >>
        kept == IF Len(new) > MaxTurns
                THEN SubSeq(new, Len(new) - MaxTurns + 1, Len(new))
                ELSE new
    IN  Put(sessions, sessionId, kept)

\* the rejection result that drops the validator's reason
rejected_result_NoReason(reason) ==
    [success |-> FALSE, error |-> "Invalid query",
     answer |-> MsgGuidelines, sources |-> <<>>]

\* process_query, lines 56-61: the result of a guardrail rejection
rejected_result(reason) ==
    [success |-> FALSE, error |-> reason,
     answer |-> MsgGuidelines, sources |-> <<>>]

\* the result of the except branch without its sources
error_result_NoSources(error, searchMode, sessionId) ==
    [success |-> FALSE, error |-> error, answer |-> MsgInternal,
     searchMode |-> searchMode, sessionId |-> sessionId]

\* process_query, lines 144-153: the result built when an exception is
\* caught
error_result(error, searchMode, sessionId) ==
    [success |-> FALSE, error |-> error, answer |-> MsgInternal,
     sources |-> <<>>, searchMode |-> searchMode, sessionId |-> sessionId]

\* the "no results" result reported as a failure
no_results_result_Failure(searchMode, sessionId) ==
    [success |-> FALSE, answer |-> MsgNoResults, sources |-> <<>>,
     contextUsed |-> FALSE, searchMode |-> searchMode, retrievedCount |-> 0,
     sessionId |-> sessionId]

\* process_query, lines 80-88: the result when the search returns nothing
no_results_result(searchMode, sessionId) ==
    [success |-> TRUE, answer |-> MsgNoResults, sources |-> <<>>,
     contextUsed |-> FALSE, searchMode |-> searchMode, retrievedCount |-> 0,
     sessionId |-> sessionId]

\* asking for three times maxResults whether re-ranking is enabled or not
overfetch_Always(maxResults, enableReranking) == maxResults * 3

\* process_query, line 75: topResults = maxResults * 3 if enableReranking
\* else maxResults (None stays None when re-ranking is off)
overfetch(maxResults, enableReranking) ==
    IF enableReranking THEN maxResults * 3 ELSE maxResults

\* caching whatever the pipeline produced
should_cache_Always(result) == TRUE

\* process_query, line 139: only successful results are cached
should_cache(result) == result.success

\* a cache hit that is ignored
is_hit_Never(cached_result) == FALSE

\* process_query, line 44: "if cached_result" (a non-empty dict is true)
is_hit(cached_result) == cached_result # None /\ DOMAIN cached_result # {}

\* what one call of process_query does to the service: the fields of the
\* service afterwards, the result returned, the stages it ran and whether
\* the result came from the cache. env is what the surroundings did during
\* the call: search (what the engine did), predicted (the re-ranker's
\* model), gen (the answer generator), victim (the entry min() picks if the
\* cache is full when the result is stored).
process_query_in(st, userQuery, sessionId, searchMode, maxResults, enableReranking, env) ==
    LET same == [cache |-> st.cache, chatSessions |-> st.chatSessions,
                 hit_count |-> st.hit_count, total_requests |-> st.total_requests]
    IN
    IF userQuery = <<>> \/ stripped(userQuery) = <<>>
    THEN same @@
         [result |-> [success |-> FALSE, error |-> ErrEmptyQuery,
                      answer |-> MsgEmptyQuery, sources |-> <<>>],
          stages |-> <<>>, served |-> "rejected", calls |-> <<>>]
    ELSE
    LET got == cache_get(st.cache, st.now, userQuery, searchMode)
    IN
    IF is_hit(got.result)
    THEN [cache |-> got.cache, chatSessions |-> st.chatSessions,
          hit_count |-> st.hit_count + 1, total_requests |-> st.total_requests,
          result |-> got.result, stages |-> <<"cache_get">>,
          served |-> "cache", calls |-> <<>>]
    ELSE
    LET missed == [cache |-> got.cache, chatSessions |-> st.chatSessions,
                   hit_count |-> st.hit_count,
                   total_requests |-> st.total_requests + 1]
        validationResult == validation(userQuery)
    IN
    IF ~validationResult.isValid
    THEN missed @@
         [result |-> rejected_result(validationResult.reason),
          stages |-> <<"cache_get", "validate_query">>,
          served |-> "rejected", calls |-> <<>>]
    ELSE IF enableReranking /\ maxResults = NoneInt
    THEN \* maxResults * 3 raises TypeError, caught at line 144
         missed @@
         [result |-> error_result(ErrTypeError, searchMode, sessionId),
          stages |-> <<"cache_get", "validate_query", "optimize_query",
                       "enhance_query">>,
          served |-> "error", calls |-> <<>>]
    ELSE
    LET chatHistory == Get(st.chatSessions, sessionId, <<>>)
        topResults == overfetch(maxResults, enableReranking)
        retrievalResults == hybrid_search(topResults, env.search)
        searchCall == [fn |-> "hybrid_search", topResults |-> topResults,
                       returned |-> retrievalResults]
    IN
    IF retrievalResults = <<>>
    THEN LET result == no_results_result(searchMode, sessionId)
         IN  [missed EXCEPT !.cache = cache_set(got.cache, st.now, userQuery,
                                        searchMode, result, env.victim)] @@
             [result |-> result,
              stages |-> <<"cache_get", "validate_query", "optimize_query",
                           "enhance_query", "hybrid_search", "cache_set">>,
              served |-> "fresh", calls |-> <<searchCall>>]
    ELSE
    LET useReranker == enableReranking /\ Len(retrievalResults) > 1
        rankedResults ==
            IF useReranker
            THEN rerank_results(st.rerankerEnabled, retrievalResults,
                                maxResults, env.predicted)
            ELSE Take(simple_rerank_results(retrievalResults), maxResults)
        generationResult == generate_answer(rankedResults, env.gen)
        sessions1 ==
            IF generationResult.success
            THEN update_chat_session(st.chatSessions, sessionId, userQuery,
                                     generationResult.answer, st.now)
            ELSE st.chatSessions
        finalAnswer ==
            IF generationResult.success
            THEN validate_generated_answer(generationResult.answer,
                                           rankedResults)
            ELSE generationResult.answer
        result == [success |-> generationResult.success,
                   answer |-> finalAnswer,
                   sources |-> Get(generationResult, "sources", <<>>),
                   contextUsed |-> Get(generationResult, "contextUsed", FALSE),
                   searchMode |-> searchMode,
                   retrievedCount |-> Len(rankedResults),
                   sessionId |-> sessionId,
                   cached |-> FALSE,
                   reranked |-> useReranker]
        stored == should_cache(result)
    IN  [cache |-> IF stored
                   THEN cache_set(got.cache, st.now, userQuery, searchMode,
                                  result, env.victim)
                   ELSE got.cache,
         chatSessions |-> sessions1,
         hit_count |-> st.hit_count,
         total_requests |-> st.total_requests + 1,
         result |-> result,
         stages |-> <<"cache_get", "validate_query", "optimize_query",
                      "enhance_query", "hybrid_search">>
                    \o (IF useReranker THEN <<"rerank_results">>
                        ELSE <<"simple_rerank_results">>)
                    \o <<"generate_answer">>
                    \o (IF generationResult.success
                        THEN <<"update_chat_session",
                               "validate_generated_answer">>
                        ELSE <<>>)
                    \o (IF stored THEN <<"cache_set">> ELSE <<>>),
         served |-> "fresh",
         calls |-> <<searchCall,
                     [fn |-> IF useReranker THEN "rerank_results"
                             ELSE "simple_rerank_results",
                      returned |-> rankedResults],
                     [fn |-> "generate_answer",
                      retrievedContext |-> rankedResults]>>]

\* RagRetrievalService.process_query on the service as it stands
process_query(userQuery, sessionId, searchMode, maxResults, enableReranking, env) ==
    process_query_in([cache |-> cache, now |-> now,
                      chatSessions |-> chatSessions, hit_count |-> hit_count,
                      total_requests |-> total_requests,
                      rerankerEnabled |-> rerankerEnabled],
                     userQuery, sessionId, searchMode, maxResults,
                     enableReranking, env)

(***************************************************************************)
(* The queries the guardrail functions are checked on: up to MaxWords      *)
(* words of Vocabulary joined by single spaces, with leading and trailing  *)
(* whitespace, plus the query of the harmful-keyword scenario.             *)
(***************************************************************************)
MaxWords == 2

Vocabulary == {
    <<"h","i">>,
    <<"p","l","a","n">>,
    <<"H","a","c","k">>,
    <<"h","a","c","k","e","r">>,
    <<"w","e","a","t","h","e","r">>,
    <<"r","e","p","o","r","t">>,
    <<"s","t","o","c","k">>,
    <<"p","r","i","c","e">> }

RECURSIVE JoinWords(_)
\* ' '.join(ws)
JoinWords(ws) ==
    IF Len(ws) = 0 THEN <<>>
    ELSE IF Len(ws) = 1 THEN ws[1]
    ELSE ws[1] \o <<" ">> \o JoinWords(Tail(ws))

WordSeqs == UNION {[1..n -> Vocabulary] : n \in 0..MaxWords}

\* trailing padding that takes a 4-letter word to exactly MaxQueryLen
LongPad == MaxQueryLen - 4
LeftPads  == {0, 1}
RightPads == {0, 1, LongPad}

Queries ==
    {Spaces(l) \o JoinWords(ws) \o Spaces(r) :
        ws \in WordSeqs, l \in LeftPads, r \in RightPads}
    \cup {HackTheServer}

(***************************************************************************)
(* Calls                                                                   *)
(***************************************************************************)
NoCall == [op |-> "none"]
NoLlm == [pc |-> "idle"]
ThreadIds == {"t1", "t2"}
NoThreads == [t \in ThreadIds |-> [pc |-> "idle"]]
SessionIds == {"s1", "s2"}
NoAppends == [sid \in SessionIds |-> 0]
NoHist == [op |-> "none"]

\* a caller invoking QueryGuardrails.validate_query(query)
ValidateQueryCall ==
    /\ ret = NoCall
    /\ ret' = [op |-> "validate_query", q |-> query,
               result |-> validate_query(query)]
    /\ UNCHANGED <<cache, now, chatSessions, hit_count, total_requests,
                   query, args, llm, threads, cacheHist, nCalls, appends, rerankerEnabled>>

InitGuard ==
    /\ cache = EmptyDict
    /\ now = 0
    /\ chatSessions = EmptyDict
    /\ hit_count = 0
    /\ total_requests = 0
    /\ query \in Queries
    /\ args = <<>>
    /\ llm = NoLlm
    /\ threads = NoThreads
    /\ ret = NoCall
    /\ cacheHist = NoHist
    /\ nCalls = 0
    /\ appends = NoAppends
    /\ rerankerEnabled = TRUE

NextGuard == ValidateQueryCall

SpecGuard == InitGuard /\ [][NextGuard]_vars

(***************************************************************************)
(* Direct calls of the cache (SpecCache)                                   *)
(***************************************************************************)
MaxTime == 3

CacheModes == {ModeHybrid, ModeBm25}
CacheData == {[answer |-> "r1"], [answer |-> "r2"]}

\* time.time() moves on between two calls
Tick ==
    /\ ret = NoCall
    /\ now < MaxTime
    /\ now' = now + 1
    /\ UNCHANGED <<cache, chatSessions, hit_count, total_requests, query, args, llm, threads,
                   ret, cacheHist, nCalls, appends, rerankerEnabled>>

\* the caller takes the result of its call
Return ==
    /\ ret # NoCall
    /\ ret' = NoCall
    /\ UNCHANGED <<cache, now, chatSessions, hit_count, total_requests,
                   query, args, llm, threads, cacheHist, nCalls, appends, rerankerEnabled>>

\* a caller invoking cache.get(q, m)
CacheGetCall(q, m) ==
    LET r == cache_get(cache, now, q, m)
    IN  /\ cache' = r.cache
        /\ ret' = [op |-> "get", q |-> q, mode |-> m,
                   result |-> r.result, outcome |-> r.outcome,
                   by |-> IF r.outcome = "hit"
                          THEN cache[get_key(q, m)].by ELSE None]
        /\ UNCHANGED <<now, chatSessions, hit_count, total_requests, query, args, llm, threads,
                       cacheHist, nCalls, appends, rerankerEnabled>>

\* a caller invoking cache.set(q, m, d)
CacheSetCall(q, m, d) ==
    \E victim \in Victims(cache) :
        /\ cache' = cache_set(cache, now, q, m, d, victim)
        /\ ret' = [op |-> "set", evicted |-> victim,
                   evictedAt |-> IF victim \in DOMAIN cache
                                 THEN cache[victim].timestamp ELSE NoneInt]
        /\ cacheHist' = [op |-> "set", q |-> q, mode |-> m, data |-> d,
                         time |-> now]
        /\ UNCHANGED <<now, chatSessions, hit_count, total_requests, query, args, llm, threads,
                       nCalls, appends, rerankerEnabled>>

CacheGetStep ==
    /\ ret = NoCall
    /\ \E q \in GetQueries, m \in CacheModes : CacheGetCall(q, m)
CacheSetStep ==
    /\ ret = NoCall
    /\ \E q \in SetQueries, m \in CacheModes, d \in CacheData :
        CacheSetCall(q, m, d)

InitCache ==
    /\ cache = EmptyDict
    /\ now = 0
    /\ chatSessions = EmptyDict
    /\ hit_count = 0
    /\ total_requests = 0
    /\ query = <<>>
    /\ args = <<>>
    /\ llm = NoLlm
    /\ threads = NoThreads
    /\ ret = NoCall
    /\ cacheHist = NoHist
    /\ nCalls = 0
    /\ appends = NoAppends
    /\ rerankerEnabled = TRUE

NextCache == Tick \/ CacheGetStep \/ CacheSetStep \/ Return

SpecCache == InitCache /\ [][NextCache]_vars

(***************************************************************************)
(* Calls of the pipeline (Spec): one worker calling process_query while    *)
(* the clock moves on between calls                                        *)
(***************************************************************************)
MaxCalls == 2

PipelineModes == {ModeHybrid, ModeBm25}
MaxResultsValues == {2, NoneInt}

AnswerPlain == <<"t","h","e"," ","p","l","a","n">>
AnswerHarmful == <<"H","a","c","k"," ","i","t">>

SearchOutcomes ==
    {[raises |-> TRUE], [raises |-> FALSE, found |-> 0],
     [raises |-> FALSE, found |-> 2]}
Predictions == {[raises |-> FALSE, scores |-> <<1, 2, 2>>]}
Generations ==
    {[kind |-> "ok", answer |-> AnswerPlain],
     [kind |-> "ok", answer |-> AnswerHarmful],
     [kind |-> "failed", error |-> "Request timed out after 3 attempts"]}

IdleEnv == [search |-> [raises |-> FALSE, found |-> 0], predicted |-> [raises |-> TRUE],
            gen |-> [kind |-> "failed", error |-> ""], victim |-> NoKey]

\* the call gets as far as the search engine
ReachesRetrieval(q, mode, maxResults, enableReranking) ==
    /\ stripped(q) # <<>>
    /\ ~is_hit(cache_get(cache, now, q, mode).result)
    /\ validation(q).isValid
    /\ ~(enableReranking /\ maxResults = NoneInt)

\* what the surroundings may do during a call (one value when the call
\* never reaches them)
EnvsFor(q, mode, maxResults, enableReranking) ==
    IF ReachesRetrieval(q, mode, maxResults, enableReranking)
    THEN [search : SearchOutcomes, predicted : Predictions, gen : Generations,
          victim : Victims(cache_get(cache, now, q, mode).cache)]
    ELSE {IdleEnv}

\* a caller invoking process_query
ProcessQueryCall(q, sid, mode, maxResults, enableReranking, env) ==
    \E out \in {process_query(q, sid, mode, maxResults, enableReranking, env)} :
        /\ nCalls' = nCalls + 1
        /\ cache' = out.cache
        /\ chatSessions' = out.chatSessions
        /\ hit_count' = out.hit_count
        /\ total_requests' = out.total_requests
        /\ ret' = [op |-> "process_query", q |-> q, sessionId |-> sid,
                   mode |-> mode, maxResults |-> maxResults,
                   enableReranking |-> enableReranking,
                   result |-> out.result, stages |-> out.stages,
                   served |-> out.served, calls |-> out.calls,
                   searchFailed |->
                        /\ \E i \in 1..Len(out.stages) :
                                out.stages[i] = "hybrid_search"
                        /\ env.search.raises]
        /\ cacheHist' = IF out.served = "fresh" /\ out.result.success
                        THEN [op |-> "process_query", q |-> q, mode |-> mode,
                              result |-> out.result, time |-> now]
                        ELSE cacheHist
        /\ appends' = IF \E i \in 1..Len(out.stages) :
                              out.stages[i] = "update_chat_session"
                       THEN [appends EXCEPT ![sid] = @ + 1]
                       ELSE appends
        /\ UNCHANGED <<now, query, args, llm, threads, rerankerEnabled>>

ProcessQueryStep ==
    /\ ret = NoCall
    /\ nCalls < MaxCalls
    /\ \E q \in PipelineQueries, sid \in SessionIds, mode \in PipelineModes,
          maxResults \in MaxResultsValues, enableReranking \in {TRUE} :
        \E env \in EnvsFor(q, mode, maxResults, enableReranking) :
            ProcessQueryCall(q, sid, mode, maxResults, enableReranking, env)

Init ==
    /\ cache = EmptyDict
    /\ now = 0
    /\ chatSessions = EmptyDict
    /\ hit_count = 0
    /\ total_requests = 0
    /\ query = <<>>
    /\ args = <<>>
    /\ llm = NoLlm
    /\ threads = NoThreads
    /\ ret = NoCall
    /\ cacheHist = NoHist
    /\ nCalls = 0
    /\ appends = NoAppends
    /\ rerankerEnabled = TRUE

Next == Tick \/ ProcessQueryStep \/ Return

Spec == Init /\ [][Next]_vars

(***************************************************************************)
(* Claims about SimpleCacheManager (SpecCache)                             *)
(***************************************************************************)
\* case-folding and trimming, as the claims name it
Normalise(q) == LowerStr(Strip(q))

Size(c) == Cardinality(DOMAIN c)

\* C1: a lookup made before the TTL of the most recent store has elapsed,
\* with the same mode and a query equal to the stored one after case-folding
\* and trimming, returns the stored value; and whatever a lookup returns was
\* stored under the lookup's own mode and normalised query, so a store never
\* answers a lookup made with a different search mode.
C1_StoreThenLookup ==
    ret.op = "get" =>
        /\ (/\ cacheHist.op = "set"
            /\ ret.mode = cacheHist.mode
            /\ Normalise(ret.q) = Normalise(cacheHist.q)
            /\ now - cacheHist.time < ttl_seconds)
           => ret.result = cacheHist.data
        /\ ret.result # None =>
            /\ ret.by.mode = ret.mode
            /\ ret.by.q = Normalise(ret.q)

\* C1 witness: a hit, at a later clock reading but within the TTL, for a
\* query that differs from the stored one only in case and whitespace
C1_Witness ==
    /\ ret.op = "get"
    /\ cacheHist.op = "set"
    /\ ret.q # cacheHist.q
    /\ Normalise(ret.q) = Normalise(cacheHist.q)
    /\ ret.mode = cacheHist.mode
    /\ now > cacheHist.time
    /\ ret.result = cacheHist.data

\* C2: a lookup whose key holds an entry whose TTL has elapsed returns
\* absent and removes exactly that entry (the count drops by one, every
\* other entry is untouched); a lookup that returns a value returns the
\* data of an entry that is still within its TTL.
C2_ExpiredPurged ==
    [][\A q \in GetQueries, m \in CacheModes :
        CacheGetCall(q, m) =>
            LET key == get_key(q, m)
            IN  /\ (key \in DOMAIN cache
                        /\ now - cache[key].timestamp >= ttl_seconds)
                    => /\ ret'.result = None
                       /\ DOMAIN cache' = (DOMAIN cache) \ {key}
                       /\ Size(cache') = Size(cache) - 1
                       /\ \A k \in DOMAIN cache' : cache'[k] = cache[k]
                /\ ret'.result # None
                    => /\ key \in DOMAIN cache
                       /\ now - cache[key].timestamp < ttl_seconds
                       /\ ret'.result = cache[key].data]_vars

\* C2 witness: a lookup has just purged an expired entry and left another
C2_Witness ==
    /\ ret.op = "get"
    /\ ret.outcome = "expired"
    /\ ret.result = None
    /\ get_key(ret.q, ret.mode) \notin DOMAIN cache
    /\ Size(cache) >= 1

\* C3: the number of entries never exceeds the capacity; storing a key that
\* is not present adds it without removing anything while the cache is not
\* full, and when the cache is full leaves exactly max_size entries by
\* removing a single entry, one of least timestamp.
C3_Capacity ==
    /\ [](Size(cache) <= max_size)
    /\ [][\A q \in SetQueries, m \in CacheModes, d \in CacheData :
            (CacheSetCall(q, m, d) /\ get_key(q, m) \notin DOMAIN cache) =>
                LET key == get_key(q, m)
                IN  IF Size(cache) < max_size
                    THEN /\ DOMAIN cache' = (DOMAIN cache) \cup {key}
                         /\ \A k \in DOMAIN cache : cache'[k] = cache[k]
                    ELSE /\ Size(cache') = max_size
                         /\ \E v \in DOMAIN cache :
                              /\ DOMAIN cache' =
                                    ((DOMAIN cache) \ {v}) \cup {key}
                              /\ \A j \in DOMAIN cache :
                                    cache[v].timestamp <= cache[j].timestamp
                              /\ \A k \in (DOMAIN cache) \ {v} :
                                    cache'[k] = cache[k]]_vars

\* C3 witness: a store into a full cache has evicted an entry and the cache
\* holds exactly max_size entries
C3_Witness ==
    /\ ret.op = "set"
    /\ ret.evicted # NoKey
    /\ ret.evicted \notin DOMAIN cache
    /\ Size(cache) = max_size

(***************************************************************************)
(* Claims about QueryGuardrails.validate_query (SpecGuard)                 *)
(***************************************************************************)
IsBlank(q) == \A i \in 1..Len(q) : IsSpace(q[i])
HarmfulWords == UNION Range(harmfulPatterns)
HasHarmfulWord(q) == \E w \in HarmfulWords : SearchWord(LowerStr(q), w)
HasOffTopic(q) == \E w \in Range(offTopicPatterns) : SearchWord(LowerStr(q), w)

\* the verdict the ordered rules give, the length of the too-short rule
\* being measured as shortLen; "unspecified" where the rules leave it open
RuleReason(q, shortLen) ==
    IF IsBlank(q) THEN ReasonEmpty
    ELSE IF shortLen < 3 THEN ReasonShort
    ELSE IF Len(q) > 500 THEN ReasonLong
    ELSE IF HasHarmfulWord(q) THEN ReasonHarmful
    ELSE IF ~HasOffTopic(q) THEN ReasonValid
    ELSE "unspecified"

FollowsRules(shortLen) ==
    LET e == RuleReason(ret.q, shortLen)
    IN  e # "unspecified" =>
            /\ ret.result.reason = e
            /\ ret.result.isValid = (e = ReasonValid)

\* C8 as stated: validate_query rejects as empty, then as too short when q
\* itself has fewer than 3 characters, then as too long when q has more than
\* 500 characters, then as inappropriate on a whole-word harmful keyword,
\* and accepts a query that triggers none of these and no off-topic pattern.
C8_AsStated ==
    ret.op = "validate_query" => FollowsRules(Len(ret.q))

\* C8 amended: the same ordered rules, the too-short rule measuring the
\* query after trimming leading and trailing whitespace (the too-long rule
\* measures the untrimmed query).
C8_ValidateRules ==
    ret.op = "validate_query" => FollowsRules(Len(Strip(ret.q)))

\* C8 witness: a query of at least 3 characters rejected as too short, though
\* accepted were its untrimmed length measured
C8_Witness ==
    /\ ret.op = "validate_query"
    /\ Len(ret.q) >= 3
    /\ ret.result.reason = ReasonShort

\* C9 as stated: a query that reaches the off-topic check and matches an
\* off-topic pattern is rejected as off-topic exactly when it carries no
\* on-topic (document-related) signal.
C9_OffTopicUnlessOnTopic ==
    (/\ ret.op = "validate_query"
     /\ ~IsBlank(ret.q)
     /\ Len(Strip(ret.q)) >= 3
     /\ Len(ret.q) <= 500
     /\ ~HasHarmfulWord(ret.q)
     /\ HasOffTopic(ret.q))
    => ((ret.result.reason = ReasonOffTopic)
            <=> ~is_query_about_documents(ret.q))

(***************************************************************************)
(* Claims about RagRetrievalService.process_query (Spec)                   *)
(***************************************************************************)
\* a step of Next that is a call of process_query
IsProcessQueryStep == nCalls' = nCalls + 1

ProviderStages ==
    {"hybrid_search", "rerank_results", "simple_rerank_results",
     "generate_answer"}

InvokesProviders(stages) == \E i \in 1..Len(stages) : stages[i] \in ProviderStages

\* C4: when a call of process_query computed a successful result and the
\* next successful computation has not happened yet, a call made before the
\* TTL of that result has elapsed, with the same mode and a valid query equal
\* to the first one after case-folding and trimming, returns the first
\* call's answer and sources and runs neither the retrieval provider nor the
\* re-ranker nor the answer generator.
C4_SecondCallFromCache ==
    [][(/\ IsProcessQueryStep
        /\ cacheHist.op = "process_query"
        /\ ret'.mode = cacheHist.mode
        /\ Normalise(ret'.q) = Normalise(cacheHist.q)
        /\ validate_query(ret'.q).isValid
        /\ now - cacheHist.time < ttl_seconds)
       => /\ ret'.result.answer = cacheHist.result.answer
          /\ ret'.result.sources = cacheHist.result.sources
          /\ ~InvokesProviders(ret'.stages)]_vars

\* C4 witness: at a later clock reading, within the TTL, a query differing
\* from the first one in case and whitespace got the first call's generated
\* answer without any provider being called
C4_Witness ==
    /\ ret.op = "process_query"
    /\ cacheHist.op = "process_query"
    /\ ret.q # cacheHist.q
    /\ ret.mode = cacheHist.mode
    /\ now > cacheHist.time
    /\ now - cacheHist.time < ttl_seconds
    /\ ret.served = "cache"
    /\ ret.stages = <<"cache_get">>
    /\ ret.result.sources # <<>>
    /\ ret.result.answer = cacheHist.result.answer
    /\ ret.result.sources = cacheHist.result.sources

\* C5 as stated: a result served from the cache carries cached = true and a
\* freshly computed result carries cached = false.
C5_CachedFlag ==
    ret.op = "process_query" =>
        /\ ret.served = "cache" =>
            ("cached" \in DOMAIN ret.result /\ ret.result.cached = TRUE)
        /\ ret.served = "fresh" =>
            ("cached" \in DOMAIN ret.result /\ ret.result.cached = FALSE)

\* C6: every value held in the cache is a result with success = true, and a
\* call that returns success = false adds no entry and replaces none.
C6_OnlySuccessCached ==
    /\ [](\A k \in DOMAIN cache : cache[k].data.success = TRUE)
    /\ [][(IsProcessQueryStep /\ ~ret'.result.success) =>
            \A k \in DOMAIN cache' :
                k \in DOMAIN cache /\ cache'[k] = cache[k]]_vars

\* C6 witness: the answer generator failed, the call returned success =
\* false after running the whole pipeline, and the cache still holds the
\* earlier successful result only
C6_Witness ==
    /\ ret.op = "process_query"
    /\ ret.served = "fresh"
    /\ ~ret.result.success
    /\ InvokesProviders(ret.stages)
    /\ Size(cache) = 1
    /\ get_key(ret.q, ret.mode) \notin DOMAIN cache

\* what a rejected call returns and runs, and the session store it leaves
RejectedOutcome ==
    /\ ret'.result.success = FALSE
    /\ ret'.result.error =
          (IF IsBlank(ret'.q) THEN ErrEmptyQuery
           ELSE validate_query(ret'.q).reason)
    /\ ~InvokesProviders(ret'.stages)
    /\ chatSessions' = chatSessions

\* C7 as stated: a call rejected for an empty query or by the guardrail
\* returns success = false with the reason, invokes no provider and leaves
\* the session store and the cache entries unchanged.
C7_AsStated ==
    [][(IsProcessQueryStep /\ ret'.served = "rejected") =>
            (RejectedOutcome /\ cache' = cache)]_vars

\* C7 amended: such a call returns success = false with the reason, invokes
\* no provider, leaves the session store unchanged and adds or replaces no
\* cache entry; the only entry it may remove is an expired one stored under
\* the key of its own query and mode, purged by the lookup that precedes
\* validation (an empty query is rejected before the lookup and removes
\* nothing).
C7_RejectionShortCircuits ==
    [][(IsProcessQueryStep /\ ret'.served = "rejected") =>
            /\ RejectedOutcome
            /\ \A k \in DOMAIN cache' :
                    k \in DOMAIN cache /\ cache'[k] = cache[k]
            /\ \A k \in (DOMAIN cache) \ (DOMAIN cache') :
                    /\ ~IsBlank(ret'.q)
                    /\ k = get_key(ret'.q, ret'.mode)
                    /\ now - cache[k].timestamp >= ttl_seconds]_vars

\* C7 witness: a query rejected as too long whose normal form is that of an
\* earlier successful query; the earlier result had expired and the
\* rejected call took it out of the cache
C7_Witness ==
    /\ ret.op = "process_query"
    /\ ret.served = "rejected"
    /\ ret.result.error = ReasonLong
    /\ cacheHist.op = "process_query"
    /\ ret.mode = cacheHist.mode
    /\ Normalise(ret.q) = Normalise(cacheHist.q)
    /\ now - cacheHist.time >= ttl_seconds
    /\ get_key(ret.q, ret.mode) \notin DOMAIN cache
    /\ nCalls = 2

(***************************************************************************)
(* Calls of QueryGuardrails.validate_generated_answer (SpecAnswer)         *)
(***************************************************************************)
AnswerVocabulary == {
    <<"p","l","a","n">>,
    <<"H","a","c","k">>,
    <<"h","a","c","k","e","r">>,
    <<"I"," ","d","o","n","'","t"," ","k","n","o","w">>,
    <<"i"," ","d","o","n","'","t"," ","k","n","o","w">>,
    <<"d","o","n","'","t"," ","h","a","v","e">>,
    <<"D","o","c","u","m","e","n","t">>,
    <<"s","o","u","r","c","e","s">> }

AnswerSeqs == UNION {[1..n -> AnswerVocabulary] : n \in 0..MaxWords}

\* the answers of the model: words joined by spaces, possibly after a
\* leading space (the empty and the blank answer among them)
Answers == {Spaces(l) \o JoinWords(ws) : ws \in AnswerSeqs, l \in LeftPads}

\* the passages handed over with the answer: none, or the first ones found
Contexts == {Take(Hits, n) : n \in 0..Len(Hits)}

\* a caller invoking validate_generated_answer(generatedAnswer, retrievedContext)
ValidateAnswerCall ==
    /\ ret = NoCall
    /\ ret' = [op |-> "validate_generated_answer",
               generatedAnswer |-> args.generatedAnswer,
               retrievedContext |-> args.retrievedContext,
               result |-> validate_generated_answer(args.generatedAnswer,
                                                    args.retrievedContext)]
    /\ UNCHANGED <<cache, now, chatSessions, hit_count, total_requests,
                   query, args, llm, threads, cacheHist, nCalls, appends, rerankerEnabled>>

InitAnswer ==
    /\ cache = EmptyDict
    /\ now = 0
    /\ chatSessions = EmptyDict
    /\ hit_count = 0
    /\ total_requests = 0
    /\ query = <<>>
    /\ args \in [generatedAnswer : Answers, retrievedContext : Contexts]
    /\ llm = NoLlm
    /\ threads = NoThreads
    /\ ret = NoCall
    /\ cacheHist = NoHist
    /\ nCalls = 0
    /\ appends = NoAppends
    /\ rerankerEnabled = TRUE

NextAnswer == ValidateAnswerCall

SpecAnswer == InitAnswer /\ [][NextAnswer]_vars

(***************************************************************************)
(* Claims about QueryGuardrails.validate_generated_answer (SpecAnswer)     *)
(***************************************************************************)
HasDisclaimer(a) ==
    \/ Contains(a, <<"I"," ","d","o","n","'","t"," ","k","n","o","w">>)
    \/ Contains(a, <<"d","o","n","'","t"," ","h","a","v","e">>)

MentionsSources(a) ==
    \/ Contains(LowerStr(a), <<"d","o","c","u","m","e","n","t">>)
    \/ Contains(LowerStr(a), <<"s","o","u","r","c","e">>)

\* " (Based on: <titles>)" naming the first two passages at most
BasedOnSuffix(ctx) ==
    IF Len(ctx) = 1
    THEN <<" (Based on: ", ctx[1].documentTitle, ")">>
    ELSE <<" (Based on: ", ctx[1].documentTitle, ", ",
           ctx[2].documentTitle, ")">>

\* the result the three prioritised rules give
OutputRules(a, ctx) ==
    IF ctx = <<>> /\ ~HasDisclaimer(a) THEN MsgInsufficient
    ELSE IF HasHarmfulWord(a) THEN MsgRefusal
    ELSE IF ctx # <<>> /\ ~MentionsSources(a) THEN a \o BasedOnSuffix(ctx)
    ELSE a

\* C11 as stated: validate_generated_answer gives, for every answer and
\* context, the insufficient-information message when the context is empty
\* and the answer has no disclaimer phrase, otherwise the refusal message
\* when the answer matches a harmful pattern, otherwise the answer followed
\* by the "(Based on: ...)" suffix when there is context and the answer
\* mentions neither "document" nor "source", and otherwise the answer itself.
C11_AsStated ==
    ret.op = "validate_generated_answer" =>
        ret.result = OutputRules(ret.generatedAnswer, ret.retrievedContext)

\* C11 amended: an answer that is empty or only whitespace gives the
\* could-not-generate message whatever the context; every other answer goes
\* through the three rules in their priority.
C11_OutputRules ==
    ret.op = "validate_generated_answer" =>
        ret.result =
            (IF IsBlank(ret.generatedAnswer) THEN MsgNoResponse
             ELSE OutputRules(ret.generatedAnswer, ret.retrievedContext))

\* C11 witness: a blank answer with passages in the context was replaced by
\* the could-not-generate message, where the three rules give the blank
\* answer followed by the suffix
C11_Witness ==
    /\ ret.op = "validate_generated_answer"
    /\ IsBlank(ret.generatedAnswer)
    /\ ret.retrievedContext # <<>>
    /\ ret.result = MsgNoResponse

(***************************************************************************)
(* QueryGuardrails.optimize_query and its calls (SpecOptimize)             *)
(***************************************************************************)
stopWords == {
    <<"t","h","e">>, <<"a">>, <<"a","n">>, <<"a","n","d">>, <<"o","r">>,
    <<"b","u","t">>, <<"i","n">>, <<"o","n">>, <<"a","t">>, <<"t","o">>,
    <<"f","o","r">>, <<"o","f">>, <<"w","i","t","h">>, <<"b","y">>,
    <<"i","s">>, <<"a","r","e">>, <<"w","a","s">>, <<"w","e","r","e">>,
    <<"b","e">>, <<"b","e","e","n">>, <<"b","e","i","n","g">> }

questionWords == {
    <<"w","h","a","t">>, <<"h","o","w">>, <<"w","h","e","n">>,
    <<"w","h","e","r","e">>, <<"w","h","y">>, <<"w","h","o">> }

\* re.sub(r'[^\w\s\?]', ' ', s)
ReplaceSpecial(s) ==
    [i \in 1..Len(s) |->
        IF IsWordChar(s[i]) \/ IsSpace(s[i]) \/ s[i] = "?" THEN s[i] ELSE " "]

RECURSIVE Split(_)
\* str.split(): the maximal runs of characters that are not whitespace
Split(s) ==
    IF s = <<>> THEN <<>>
    ELSE IF IsSpace(s[1]) THEN Split(Tail(s))
    ELSE LET ends == {i \in 1..Len(s) : IsSpace(s[i])}
             stop == IF ends = {} THEN Len(s) + 1
                     ELSE CHOOSE i \in ends : \A j \in ends : i <= j
         IN  <<SubSeq(s, 1, stop - 1)>> \o Split(SubSeq(s, stop, Len(s)))

\* optimize_query, lines 86-103: the optimised text before the length test
optimizedQuery(q) ==
    LET cleanQuery == ReplaceSpecial(LowerStr(Strip(q)))
        queryWords == Split(cleanQuery)
        KeepPlain(w) == w \notin stopWords /\ Len(w) > 2
        KeepQuestion(w) == Len(w) > 1
        optimizedWords ==
            IF ~\E i \in 1..Len(queryWords) : queryWords[i] \in questionWords
            THEN SelectSeq(queryWords, KeepPlain)
            ELSE SelectSeq(queryWords, KeepQuestion)
    IN  JoinWords(optimizedWords)

\* optimize_query without the minimum-length test
optimize_query_NoValve(q) == optimizedQuery(q)

\* QueryGuardrails.optimize_query; len(optimizedQuery) < len(query) * 0.3
\* is computed on integers as 10 * len(optimizedQuery) < 3 * len(query)
\* (the two agree for every length up to 2000)
optimize_query(q) ==
    IF 10 * Len(optimizedQuery(q)) < 3 * Len(q) THEN q ELSE optimizedQuery(q)

OptimizeVocabulary == {
    <<"t","h","e">>,
    <<"i","s">>,
    <<"i","t">>,
    <<"p","l","a","n">>,
    <<"W","h","a","t">>,
    <<"c","o","s","t","s","?">>,
    <<"a","-","b","!">>,
    <<"r","e","p","o","r","t","s">> }

OptimizeSeqs == UNION {[1..n -> OptimizeVocabulary] : n \in 0..MaxWords}

OptimizeQueries ==
    {Spaces(l) \o JoinWords(ws) \o Spaces(r) :
        ws \in OptimizeSeqs, l \in LeftPads, r \in RightPads}

\* a caller invoking QueryGuardrails.optimize_query(query)
OptimizeQueryCall ==
    /\ ret = NoCall
    /\ ret' = [op |-> "optimize_query", q |-> query,
               result |-> optimize_query(query)]
    /\ UNCHANGED <<cache, now, chatSessions, hit_count, total_requests,
                   query, args, llm, threads, cacheHist, nCalls, appends, rerankerEnabled>>

InitOptimize ==
    /\ cache = EmptyDict
    /\ now = 0
    /\ chatSessions = EmptyDict
    /\ hit_count = 0
    /\ total_requests = 0
    /\ query \in OptimizeQueries
    /\ args = <<>>
    /\ llm = NoLlm
    /\ threads = NoThreads
    /\ ret = NoCall
    /\ cacheHist = NoHist
    /\ nCalls = 0
    /\ appends = NoAppends
    /\ rerankerEnabled = TRUE

NextOptimize == OptimizeQueryCall

SpecOptimize == InitOptimize /\ [][NextOptimize]_vars

(***************************************************************************)
(* Claims about QueryGuardrails.optimize_query (SpecOptimize)              *)
(***************************************************************************)
\* C12: optimize_query returns either its argument unchanged or a text of
\* at least 30% of the argument's length (10 * len(result) >= 3 * len(q)),
\* and it never returns the empty text for a non-empty argument.
C12_OptimizerValve ==
    ret.op = "optimize_query" =>
        /\ ret.result = ret.q \/ 10 * Len(ret.result) >= 3 * Len(ret.q)
        /\ ret.q # <<>> => ret.result # <<>>

\* C12 witness: a non-empty query made of stop words, whose optimised text
\* is empty, came back unchanged
C12_Witness ==
    /\ ret.op = "optimize_query"
    /\ ret.q # <<>>
    /\ ~IsBlank(ret.q)
    /\ optimizedQuery(ret.q) = <<>>
    /\ ret.result = ret.q

\* C12 witness of the other case: a query shortened to at least 30% of its
\* length
C12_WitnessShortened ==
    /\ ret.op = "optimize_query"
    /\ ret.result # ret.q
    /\ Len(ret.result) < Len(ret.q)

(***************************************************************************)
(* The session store of RagRetrievalService and its calls (SpecSession)    *)
(***************************************************************************)
\* get_chat_history written with dict.setdefault
get_chat_history_SetDefault(sessions, sessionId) ==
    [chatSessions |-> IF sessionId \in DOMAIN sessions THEN sessions
                      ELSE Put(sessions, sessionId, <<>>),
     result |-> Get(sessions, sessionId, <<>>)]

\* RagRetrievalService.get_chat_history: the store afterwards and the
\* value returned
get_chat_history(sessions, sessionId) ==
    [chatSessions |-> sessions, result |-> Get(sessions, sessionId, <<>>)]

\* RagRetrievalService.clear_chat_session: the store afterwards and the
\* value returned
clear_chat_session(sessions, sessionId) ==
    IF sessionId \in DOMAIN sessions
    THEN [chatSessions |-> Del(sessions, sessionId), result |-> TRUE]
    ELSE [chatSessions |-> sessions, result |-> FALSE]

\* RagRetrievalService.get_active_sessions (the ids, whatever their order)
get_active_sessions(sessions) == DOMAIN sessions

MaxAppends == 12

UserQueries == {WordPlan, QueryHi}
AssistantAnswers == {<<"t","h","e"," ","p","l","a","n">>}

RECURSIVE SumOver(_, _)
SumOver(f, S) ==
    IF S = {} THEN 0
    ELSE LET x == CHOOSE x \in S : TRUE IN f[x] + SumOver(f, S \ {x})

\* a caller invoking _update_chat_session(sessionId, userQuery, assistantAnswer)
AppendCall(sid, u, a) ==
    /\ chatSessions' = update_chat_session(chatSessions, sid, u, a, now)
    /\ appends' = [appends EXCEPT ![sid] = @ + 1]
    /\ ret' = [op |-> "update_chat_session", sessionId |-> sid,
               userQuery |-> u, assistantAnswer |-> a]
    /\ UNCHANGED <<cache, now, hit_count, total_requests, query, args, llm, threads,
                   cacheHist, nCalls, rerankerEnabled>>

\* a caller invoking get_chat_history(sessionId)
HistoryCall(sid) ==
    LET out == get_chat_history(chatSessions, sid)
    IN  /\ chatSessions' = out.chatSessions
        /\ ret' = [op |-> "get_chat_history", sessionId |-> sid,
                   result |-> out.result]
        /\ UNCHANGED <<cache, now, hit_count, total_requests, query, args, llm, threads,
                       cacheHist, nCalls, appends, rerankerEnabled>>

\* a caller invoking clear_chat_session(sessionId)
ClearSessionCall(sid) ==
    LET out == clear_chat_session(chatSessions, sid)
    IN  /\ chatSessions' = out.chatSessions
        /\ appends' = [appends EXCEPT ![sid] = 0]
        /\ ret' = [op |-> "clear_chat_session", sessionId |-> sid,
                   result |-> out.result]
        /\ UNCHANGED <<cache, now, hit_count, total_requests, query, args, llm, threads,
                       cacheHist, nCalls, rerankerEnabled>>

AppendStep ==
    /\ ret = NoCall
    /\ SumOver(appends, SessionIds) < MaxAppends
    /\ \E sid \in SessionIds, u \in UserQueries, a \in AssistantAnswers :
        AppendCall(sid, u, a)

HistoryStep ==
    /\ ret = NoCall
    /\ \E sid \in SessionIds : HistoryCall(sid)

ClearSessionStep ==
    /\ ret = NoCall
    /\ \E sid \in SessionIds : ClearSessionCall(sid)

NextSession == AppendStep \/ HistoryStep \/ ClearSessionStep \/ Return

SpecSession == Init /\ [][NextSession]_vars

(***************************************************************************)
(* Claims about the session store (SpecSession)                            *)
(***************************************************************************)
Min(a, b) == IF a < b THEN a ELSE b

IsAppendStep == ret = NoCall /\ ret'.op = "update_chat_session"

\* C13: the history of a session that received N appends since it last did
\* not exist (never appended to, or cleared) has length min(2N, 20).
C13_SessionBound ==
    \A sid \in SessionIds :
        Len(get_chat_history(chatSessions, sid).result)
            = Min(2 * appends[sid], 20)

\* C13 witness: a session that received more than 10 appends holds 20 turns
C13_Witness ==
    \E sid \in SessionIds :
        /\ appends[sid] > 10
        /\ Len(get_chat_history(chatSessions, sid).result) = 20

\* C14: an append makes the last two turns of the session (user, u) then
\* (assistant, a); the turns before them are the previous history in its
\* order, without its oldest turns exactly as far as the total would exceed
\* 20; no other session changes.
C14_AppendFrame ==
    [][IsAppendStep =>
        LET sid == ret'.sessionId
            old == get_chat_history(chatSessions, sid).result
            new == get_chat_history(chatSessions', sid).result
            dropped == IF Len(old) + 2 > 20 THEN Len(old) + 2 - 20 ELSE 0
        IN  /\ Len(new) >= 2
            /\ new[Len(new) - 1].role = "user"
            /\ new[Len(new) - 1].content = ret'.userQuery
            /\ new[Len(new)].role = "assistant"
            /\ new[Len(new)].content = ret'.assistantAnswer
            /\ SubSeq(new, 1, Len(new) - 2) = SubSeq(old, dropped + 1, Len(old))
            /\ DOMAIN chatSessions' = (DOMAIN chatSessions) \cup {sid}
            /\ \A other \in (DOMAIN chatSessions) \ {sid} :
                    chatSessions'[other] = chatSessions[other]]_vars

\* C14 witness: an append to a full session, another session being present,
\* has just put its two turns at the end of 20 turns whose first user turn
\* differs from the one appended
C14_Witness ==
    /\ ret.op = "update_chat_session"
    /\ appends[ret.sessionId] > 10
    /\ DOMAIN chatSessions = SessionIds
    /\ LET h == chatSessions[ret.sessionId]
       IN  /\ Len(h) = 20
           /\ h[19].content = ret.userQuery
           /\ h[20].content = ret.assistantAnswer
           /\ h[1].content # ret.userQuery

(***************************************************************************)
(* The calls a client can make on RagRetrievalService at one clock         *)
(* reading (SpecService)                                                   *)
(***************************************************************************)
NextService == ProcessQueryStep \/ HistoryStep \/ ClearSessionStep \/ Return

SpecService == Init /\ [][NextService]_vars

\* the call computed its result and the answer generator succeeded
ReachedGeneration(r) ==
    /\ r.served = "fresh"
    /\ \E i \in 1..Len(r.stages) : r.stages[i] = "generate_answer"
    /\ r.result.success

\* C15: get_chat_history on an id that is not in the store returns the
\* empty sequence, and it never changes the store; a process_query call
\* that does not reach a successful generation leaves the set of active
\* session ids as it was.
C15_HistoryCreatesNothing ==
    /\ [][(ret = NoCall /\ ret'.op = "get_chat_history") =>
            /\ ret'.sessionId \notin DOMAIN chatSessions
                    => ret'.result = <<>>
            /\ get_active_sessions(chatSessions')
                    = get_active_sessions(chatSessions)
            /\ chatSessions' = chatSessions]_vars
    /\ [][(IsProcessQueryStep /\ ~ReachedGeneration(ret')) =>
            get_active_sessions(chatSessions')
                = get_active_sessions(chatSessions)]_vars

\* C15 witness: the history of an id that is not in the store came back
\* empty after two process_query calls, one session being active, and the
\* id is still not in the store
C15_Witness ==
    /\ ret.op = "get_chat_history"
    /\ ret.result = <<>>
    /\ nCalls = 2
    /\ get_active_sessions(chatSessions) # {}
    /\ ret.sessionId \notin get_active_sessions(chatSessions)

(***************************************************************************)
(* Calls of SimpleReranker.rerank_results (SpecRerank)                     *)
(***************************************************************************)
\* the candidates handed to the re-ranker: passages of the engine, each at
\* most once, in any order
CandidateLists ==
    {c \in UNION {[1..n -> Range(Hits)] : n \in 0..Len(Hits)} :
        \A i, j \in 1..Len(c) : i # j => c[i] # c[j]}

TopKs == {1, 2, 5}
ScoreValues == {1, 2}

\* what model.predict does on a call: it raises, or scores each candidate
PredictOutcomes ==
    {[raises |-> TRUE]}
    \cup {[raises |-> FALSE, scores |-> sc] :
            sc \in [1..Len(Hits) -> ScoreValues]}

\* a caller invoking rerank_results(query, results, top_k)
RerankCall ==
    /\ ret = NoCall
    /\ ret' = [op |-> "rerank_results", enabled |-> rerankerEnabled,
               results |-> args.results, top_k |-> args.top_k,
               predicted |-> args.predicted,
               result |-> rerank_results(rerankerEnabled, args.results,
                                         args.top_k, args.predicted)]
    /\ UNCHANGED <<cache, now, chatSessions, hit_count, total_requests,
                   query, args, llm, threads, cacheHist, nCalls, appends, rerankerEnabled>>

InitRerank ==
    /\ cache = EmptyDict
    /\ now = 0
    /\ chatSessions = EmptyDict
    /\ hit_count = 0
    /\ total_requests = 0
    /\ query = <<>>
    /\ args \in [results : CandidateLists, top_k : TopKs,
                 predicted : PredictOutcomes]
    /\ llm = NoLlm
    /\ threads = NoThreads
    /\ ret = NoCall
    /\ cacheHist = NoHist
    /\ nCalls = 0
    /\ appends = NoAppends
    /\ rerankerEnabled \in BOOLEAN

NextRerank == RerankCall

SpecRerank == InitRerank /\ [][NextRerank]_vars

(***************************************************************************)
(* Claims about SimpleReranker.rerank_results (SpecRerank)                 *)
(***************************************************************************)
\* the candidate as it was handed in, without the score attached to it
Candidate(r) == [f \in (DOMAIN r) \ {"rerank_score"} |-> r[f]]

Scoring(r) == r.enabled /\ ~r.predicted.raises /\ Len(r.results) > 1

\* C16: when the re-ranker is disabled, when model.predict raises, or when
\* there is at most one candidate, rerank_results returns the first top_k
\* candidates, unchanged and in the order they were given.
C16_RerankFallback ==
    (ret.op = "rerank_results" /\ ~Scoring(ret)) =>
        /\ Len(ret.result) = Min(ret.top_k, Len(ret.results))
        /\ \A i \in 1..Len(ret.result) : ret.result[i] = ret.results[i]

\* C16 witness: model.predict raised on three candidates, of which the
\* first two came back in the order given
C16_Witness ==
    /\ ret.op = "rerank_results"
    /\ ret.enabled
    /\ ret.predicted.raises
    /\ Len(ret.results) = 3
    /\ ret.top_k = 2
    /\ ret.result = SubSeq(ret.results, 1, 2)

\* C17: when the re-ranker is enabled, model.predict returns and there is
\* more than one candidate, the result lists distinct candidates, at most
\* top_k of them, by descending score with equal scores in the order given,
\* and every candidate left out ranks after every candidate returned.
C17_RerankOrder ==
    (ret.op = "rerank_results" /\ Scoring(ret)) =>
        LET n == Len(ret.results)
            sc == ret.predicted.scores
            Before(i, j) == sc[i] > sc[j] \/ (sc[i] = sc[j] /\ i < j)
        IN  /\ Len(ret.result) = Min(ret.top_k, n)
            /\ \E idx \in [1..Len(ret.result) -> 1..n] :
                /\ \A r \in 1..Len(ret.result) :
                    /\ Candidate(ret.result[r]) = ret.results[idx[r]]
                    /\ ret.result[r].rerank_score = sc[idx[r]]
                /\ \A r1, r2 \in 1..Len(ret.result) :
                    r1 < r2 => Before(idx[r1], idx[r2])
                /\ \A j \in 1..n :
                    (\A r \in 1..Len(ret.result) : idx[r] # j)
                        => \A r \in 1..Len(ret.result) : Before(idx[r], j)

\* C17 witness: three candidates of which the last two score highest and
\* equal; they came back first, in the order given, the first one left out
C17_Witness ==
    /\ ret.op = "rerank_results"
    /\ Scoring(ret)
    /\ Len(ret.results) = 3
    /\ ret.top_k = 2
    /\ ret.predicted.scores = <<1, 2, 2>>
    /\ Candidate(ret.result[1]) = ret.results[2]
    /\ Candidate(ret.result[2]) = ret.results[3]

(***************************************************************************)
(* Claims about the failures of the pipeline (Spec)                        *)
(***************************************************************************)
\* C18: every call of process_query returns a result with the fields
\* success, answer and sources, success being a boolean, the calls in which
\* an exception was raised inside the pipeline included.
C18_AlwaysStructured ==
    ret.op = "process_query" =>
        /\ {"success", "answer", "sources"} \subseteq DOMAIN ret.result
        /\ ret.result.success \in BOOLEAN

\* C18 witness: a call in which maxResults * 3 raised TypeError returned the
\* result of the except branch
C18_Witness ==
    /\ ret.op = "process_query"
    /\ ret.served = "error"
    /\ ret.maxResults = NoneInt
    /\ ret.result.success = FALSE
    /\ ret.result.error = ErrTypeError
    /\ ret.result.sources = <<>>

\* C19 as stated: when the answer generator fails on all its attempts,
\* process_query returns success = false, the apology of the generator
\* (which is not the apology of the other failures) and an error field
\* carrying the generator's error, which names the exhausted attempts.
C19_GenerationFailure ==
    (/\ ret.op = "process_query"
     /\ ret.served = "fresh"
     /\ InvokesProviders(ret.stages)
     /\ ~ret.result.success)
    => /\ ret.result.answer = MsgUnable
       /\ ret.result.answer # MsgInternal
       /\ "error" \in DOMAIN ret.result
       /\ ret.result.error = "Request timed out after 3 attempts"

\* C20 as stated: when the search engine fails, process_query returns
\* success = false with the generic apology and the error, does not call the
\* answer generator and stores nothing under the key of the query.
C20_RetrievalFailure ==
    (ret.op = "process_query" /\ ret.searchFailed) =>
        /\ ret.result.success = FALSE
        /\ ret.result.answer = MsgInternal
        /\ "error" \in DOMAIN ret.result
        /\ \A i \in 1..Len(ret.stages) : ret.stages[i] # "generate_answer"
        /\ get_key(ret.q, ret.mode) \notin DOMAIN cache

(***************************************************************************)
(* Claims about the outcomes of the pipeline (Spec)                        *)
(***************************************************************************)
\* the call computed its result and its search returned the empty list
SearchReturnedNothing(r) ==
    /\ r.served = "fresh"
    /\ Len(r.calls) >= 1
    /\ r.calls[1].fn = "hybrid_search"
    /\ r.calls[1].returned = <<>>

\* C21: a call whose search returns the empty list returns success = true
\* with the "couldn't find" answer, no sources and a retrieved count of 0,
\* calls neither the re-ranker nor the answer generator, leaves the session
\* store as it was and stores its result under the key of the query; and a
\* call with the same query and mode made within the TTL of such a result is
\* served that result from the cache.
C21_NoResultsCached ==
    /\ [][(IsProcessQueryStep /\ SearchReturnedNothing(ret')) =>
            /\ ret'.result.success = TRUE
            /\ ret'.result.answer = MsgNoResults
            /\ ret'.result.sources = <<>>
            /\ ret'.result.retrievedCount = 0
            /\ Len(ret'.calls) = 1
            /\ chatSessions' = chatSessions
            /\ get_key(ret'.q, ret'.mode) \in DOMAIN cache'
            /\ cache'[get_key(ret'.q, ret'.mode)].data = ret'.result]_vars
    /\ [][(/\ IsProcessQueryStep
           /\ cacheHist.op = "process_query"
           /\ cacheHist.result.answer = MsgNoResults
           /\ ret'.q = cacheHist.q
           /\ ret'.mode = cacheHist.mode
           /\ now - cacheHist.time < ttl_seconds)
          => /\ ret'.served = "cache"
             /\ ret'.calls = <<>>
             /\ ret'.result = cacheHist.result]_vars

\* C21 witness: at a later clock reading within the TTL, the "couldn't
\* find" result of an earlier call with the same query came back from the
\* cache
C21_Witness ==
    /\ ret.op = "process_query"
    /\ ret.served = "cache"
    /\ ret.result.success = TRUE
    /\ ret.result.answer = MsgNoResults
    /\ ret.result.retrievedCount = 0
    /\ cacheHist.op = "process_query"
    /\ ret.q = cacheHist.q
    /\ now > cacheHist.time
    /\ chatSessions = EmptyDict

(***************************************************************************)
(* OllamaLlmClient._call_ollama_api, one step per request and per sleep    *)
(* (SpecGenerate)                                                          *)
(***************************************************************************)
max_retries == 3

\* what requests.post and the reading of the response do on one attempt: a
\* response with a status and a body that has, or has not, the field
\* message.content; a requests.exceptions.Timeout; any other exception
PostOutcomes ==
    {[kind |-> "response", status |-> 200, wellFormed |-> TRUE],
     [kind |-> "response", status |-> 200, wellFormed |-> FALSE],
     [kind |-> "response", status |-> 500, wellFormed |-> TRUE],
     [kind |-> "response", status |-> 503, wellFormed |-> TRUE],
     [kind |-> "timeout"],
     [kind |-> "error", error |-> "Connection refused"]}

GeneratedAnswer == <<"t","h","e"," ","p","l","a","n">>

\* an attempt that never counts as answered
post_succeeded_Never(outcome) == FALSE

\* lines 188-196: the attempt returns the answer (status 200 and a body
\* from which message.content can be read)
post_succeeded(outcome) ==
    /\ outcome.kind = "response"
    /\ outcome.status = 200
    /\ outcome.wellFormed

\* a back-off that doubles with every attempt
backoff_Doubling(outcome, attempt) ==
    (IF outcome.kind = "timeout" THEN 10 ELSE 5) * (2 ^ attempt)

\* lines 201, 213, 221: the seconds slept before the next attempt
backoff(outcome, attempt) ==
    IF outcome.kind = "response" /\ outcome.status # 200 THEN 5
    ELSE IF outcome.kind = "timeout" THEN 10
    ELSE 5

\* lines 204-207, 216-219, 223-226: the failure returned by the last attempt
failure_result(outcome) ==
    IF outcome.kind = "response" /\ outcome.status # 200
    THEN [success |-> FALSE,
          error |-> <<"API call failed with status ", outcome.status>>]
    ELSE IF outcome.kind = "timeout"
    THEN [success |-> FALSE,
          error |-> <<"Request timed out after ", max_retries, " attempts">>]
    ELSE IF outcome.kind = "response"
    THEN [success |-> FALSE, error |-> <<"'message'">>]
    ELSE [success |-> FALSE, error |-> <<outcome.error>>]

\* one pass through the body of the for loop up to its return, its sleep or
\* its exhaustion
RequestStep ==
    /\ llm.pc = "request"
    /\ IF llm.attempt >= max_retries
       THEN llm' = [llm EXCEPT !.pc = "done",
                        !.result = [success |-> FALSE,
                                    error |-> <<"Max retries exceeded">>]]
       ELSE \E outcome \in PostOutcomes :
              LET posted == Append(llm.trace,
                                   [ev |-> "post", outcome |-> outcome])
              IN  IF post_succeeded(outcome)
                  THEN llm' = [llm EXCEPT !.pc = "done", !.trace = posted,
                                   !.result = [success |-> TRUE,
                                               answer |-> GeneratedAnswer]]
                  ELSE IF llm.attempt < max_retries - 1
                  THEN llm' = [llm EXCEPT !.pc = "sleep", !.trace = posted]
                  ELSE llm' = [llm EXCEPT !.pc = "done", !.trace = posted,
                                   !.result = failure_result(outcome)]
    /\ UNCHANGED <<cache, now, chatSessions, hit_count, total_requests,
                   query, args, threads, ret, cacheHist, nCalls,
                   appends,
                   rerankerEnabled>>

\* time.sleep(...) followed by continue
SleepStep ==
    /\ llm.pc = "sleep"
    /\ LET last == llm.trace[Len(llm.trace)].outcome
       IN  llm' = [llm EXCEPT
                    !.pc = "request",
                    !.attempt = @ + 1,
                    !.trace = Append(@, [ev |-> "sleep",
                                         secs |-> backoff(last, llm.attempt)])]
    /\ UNCHANGED <<cache, now, chatSessions, hit_count, total_requests,
                   query, args, threads, ret, cacheHist, nCalls,
                   appends,
                   rerankerEnabled>>

InitGenerate ==
    /\ cache = EmptyDict
    /\ now = 0
    /\ chatSessions = EmptyDict
    /\ hit_count = 0
    /\ total_requests = 0
    /\ query = <<>>
    /\ args = <<>>
    /\ llm = [pc |-> "request", attempt |-> 0, trace |-> <<>>,
              result |-> None]
    /\ threads = NoThreads
    /\ ret = NoCall
    /\ cacheHist = NoHist
    /\ nCalls = 0
    /\ appends = NoAppends
    /\ rerankerEnabled = TRUE

NextGenerate == RequestStep \/ SleepStep

SpecGenerate == InitGenerate /\ [][NextGenerate]_vars

\* requests.post is given a timeout and time.sleep ends: a call that can
\* take a step takes it
SpecGenerateFair == SpecGenerate /\ WF_vars(NextGenerate)

\* the attempts of the call so far: the outcomes of its requests, in order
Attempts == SelectSeq(llm.trace, LAMBDA ev : ev.ev = "post")

Got200 ==
    {outcome \in PostOutcomes :
       outcome.kind = "response" /\ outcome.status = 200}

Answered == {outcome \in Got200 : outcome.wellFormed}

\* the retry policy with the set of outcomes that end the call with success
\* left open: at most 3 attempts, success returned at the first such attempt
\* and nothing attempted after it, failure returned only after exactly 3
\* failed attempts
RetryPolicy(Succeeding) ==
    /\ Len(Attempts) <= 3
    /\ \A i \in 1..Len(Attempts) :
         Attempts[i].outcome \in Succeeding =>
           /\ i = Len(Attempts)
           /\ llm.pc = "done"
           /\ llm.result.success
    /\ (llm.pc = "done" /\ ~llm.result.success) =>
         /\ Len(Attempts) = 3
         /\ \A i \in 1..3 : Attempts[i].outcome \notin Succeeding
    /\ (llm.pc = "done" /\ llm.result.success) =>
         /\ Len(Attempts) >= 1
         /\ Attempts[Len(Attempts)].outcome \in Succeeding

\* C22 as stated: one generation call makes at most 3 attempts, returns
\* success at the first attempt that gets a 200 response and attempts nothing
\* after it, returns a failure after exactly 3 attempts when every attempt
\* fails, and always terminates.
C22_AsStated == [](RetryPolicy(Got200)) /\ <>(llm.pc = "done")

\* C22 amended: the same, where the attempt that ends the call with success
\* is the first one that gets a 200 response whose body carries the answer
\* (message.content); a 200 response with an unreadable body is a failed
\* attempt like any other error.
C22_RetryPolicy == [](RetryPolicy(Answered)) /\ <>(llm.pc = "done")

\* C22 witness: a call that got a 200 response with an unreadable body,
\* tried again and returned the answer of a later attempt
C22_Witness ==
    /\ llm.pc = "done"
    /\ llm.result.success
    /\ Len(Attempts) > 1
    /\ Attempts[1].outcome \in Got200 \ Answered

BadResponse ==
    {outcome \in PostOutcomes :
       outcome.kind = "response" /\ outcome.status # 200}

TimedOut == {outcome \in PostOutcomes : outcome.kind = "timeout"}

IsSleep(i) == i \in 1..Len(llm.trace) /\ llm.trace[i].ev = "sleep"

IsAttempt(i) == i \in 1..Len(llm.trace) /\ llm.trace[i].ev = "post"

\* the number of attempts among the first i events of the call
AttemptsUpTo(i) == Cardinality({j \in 1..i : IsAttempt(j)})

\* C29: two consecutive attempts are separated by exactly one wait, which is
\* 5 s after a non-200 response and 10 s after a timeout on every retry;
\* a wait only ever follows a failed attempt that is not the third, so
\* nothing is waited after the final attempt or after a success.
C29_FixedBackoff ==
    /\ \A i \in 1..Len(llm.trace) :
         /\ (IsAttempt(i) /\ i > 1) => IsSleep(i - 1)
         /\ IsSleep(i) =>
              /\ IsAttempt(i - 1)
              /\ llm.trace[i - 1].outcome \in BadResponse
                   => llm.trace[i].secs = 5
              /\ llm.trace[i - 1].outcome \in TimedOut
                   => llm.trace[i].secs = 10
              /\ llm.trace[i - 1].outcome \notin Answered
              /\ AttemptsUpTo(i) < 3
    /\ llm.pc = "done" => IsAttempt(Len(llm.trace))

\* C29 witness: a finished call of three attempts that waited 10 s after a
\* timeout and then 5 s after a non-200 response
C29_Witness ==
    /\ llm.pc = "done"
    /\ Len(llm.trace) = 5
    /\ llm.trace[1].outcome \in TimedOut
    /\ llm.trace[2].secs = 10
    /\ llm.trace[3].outcome \in BadResponse
    /\ llm.trace[4].secs = 5

(***************************************************************************)
(* Claims about SimpleCacheManager.set on a key already stored (SpecCache) *)
(***************************************************************************)
\* C30: a store removes an entry only when the insert would take the number
\* of entries above the capacity, and then exactly one, of the oldest
\* timestamp; a store under a key already present removes no other entry,
\* even when the cache is full.
C30_StoreRemovesOnlyOnOverflow ==
    [][\A q \in SetQueries, m \in CacheModes, d \in CacheData :
         CacheSetCall(q, m, d) =>
           LET key == get_key(q, m)
               removed == (DOMAIN cache) \ (DOMAIN cache')
           IN  IF Cardinality((DOMAIN cache) \cup {key}) > max_size
               THEN \E v \in DOMAIN cache :
                      /\ removed = {v}
                      /\ \A j \in DOMAIN cache :
                            cache[v].timestamp <= cache[j].timestamp
               ELSE removed = {}]_vars

(***************************************************************************)
(* Claims about the tags of the returned result (Spec)                     *)
(***************************************************************************)
\* C23: every result returned by process_query carries the session id of
\* the request that received it, the results served from the cache and the
\* failure results included.
C23_CarriesSessionId ==
    ret.op = "process_query" =>
        /\ "sessionId" \in DOMAIN ret.result
        /\ ret.result.sessionId = ret.sessionId

\* a run that is not short-circuited: it generated an answer and wrote it
\* to the cache
FullRun ==
    /\ ret.op = "process_query"
    /\ ret.served = "fresh"
    /\ \E i \in 1..Len(ret.stages) : ret.stages[i] = "generate_answer"
    /\ ret.stages[Len(ret.stages)] = "cache_set"

\* the name of the re-ranking stage whichever of the two rankers ran
StageName(stage) ==
    IF stage \in {"rerank_results", "simple_rerank_results"}
    THEN "rerank" ELSE stage

\* C26: in every run of process_query that is not short-circuited the stages
\* happen once each in the order cache check, input validation,
\* optimization, context enhancement, retrieval, re-ranking, generation,
\* output validation, session update, cache write; output validation comes
\* before the session update and the session update before the cache write.
C26_StageOrder ==
    FullRun =>
        [i \in 1..Len(ret.stages) |-> StageName(ret.stages[i])] =
            <<"cache_get", "validate_query", "optimize_query",
              "enhance_query", "hybrid_search", "rerank", "generate_answer",
              "validate_generated_answer", "update_chat_session",
              "cache_set">>

(***************************************************************************)
(* process_query with re-ranking on or off, the scoring model loaded or    *)
(* not, model.predict answering or raising (SpecRanking)                   *)
(***************************************************************************)
RankingQueries == {WordPlan}
RankingMaxResults == {1, 2}
RankingSearchOutcomes == {[raises |-> FALSE, found |-> n] : n \in 0..3}
RankingPredictions ==
    {[raises |-> FALSE, scores |-> <<1, 2, 2>>], [raises |-> TRUE]}

RankingEnvsFor(q, mode, maxResults, enableReranking) ==
    IF ReachesRetrieval(q, mode, maxResults, enableReranking)
    THEN [search : RankingSearchOutcomes, predicted : RankingPredictions,
          gen : Generations,
          victim : Victims(cache_get(cache, now, q, mode).cache)]
    ELSE {IdleEnv}

RankedQueryStep ==
    /\ ret = NoCall
    /\ nCalls < MaxCalls
    /\ \E q \in RankingQueries, sid \in {"s1"}, mode \in PipelineModes,
          maxResults \in RankingMaxResults, enableReranking \in BOOLEAN :
        \E env \in RankingEnvsFor(q, mode, maxResults, enableReranking) :
            ProcessQueryCall(q, sid, mode, maxResults, enableReranking, env)

\* SimpleReranker.__init__: enabled tells whether the CrossEncoder loaded
InitRanking ==
    /\ cache = EmptyDict
    /\ now = 0
    /\ chatSessions = EmptyDict
    /\ hit_count = 0
    /\ total_requests = 0
    /\ query = <<>>
    /\ args = <<>>
    /\ llm = NoLlm
    /\ threads = NoThreads
    /\ ret = NoCall
    /\ cacheHist = NoHist
    /\ nCalls = 0
    /\ appends = NoAppends
    /\ rerankerEnabled \in BOOLEAN

NextRanking == RankedQueryStep \/ Return

SpecRanking == InitRanking /\ [][NextRanking]_vars

\* the call went through ranking and generation
Ranked == ret.op = "process_query" /\ Len(ret.calls) = 3

\* the passages used for the answer are in the order of the scores of the
\* re-ranker: the re-ranker scored them
OrderingApplied ==
    /\ ret.calls[2].fn = "rerank_results"
    /\ \A i \in 1..Len(ret.calls[2].returned) :
         "rerank_score" \in DOMAIN ret.calls[2].returned[i]

\* C27: the re-ranked flag of a returned result is true exactly when the
\* score ordering of the re-ranker was applied to the passages used for the
\* answer; it is false when re-ranking is disabled, when there is at most
\* one candidate, when the scoring model is not available and when the
\* scoring call failed.
C27_RerankedFlag ==
    Ranked =>
        /\ ret.result.reranked = OrderingApplied
        /\ ~ret.enableReranking => ~ret.result.reranked
        /\ Len(ret.calls[1].returned) <= 1 => ~ret.result.reranked
        /\ ~rerankerEnabled => ~ret.result.reranked

\* C28: process_query asks the search engine for exactly 3 * maxResults
\* candidates when re-ranking is enabled and for exactly maxResults when it
\* is not; in both cases at most maxResults passages go to the generator
\* and the retrieved count of the result is at most maxResults.
C28_Overfetch ==
    (ret.op = "process_query" /\ ret.served = "fresh" /\ ret.calls # <<>>) =>
        /\ ret.calls[1].fn = "hybrid_search"
        /\ ret.calls[1].topResults =
              IF ret.enableReranking THEN 3 * ret.maxResults
              ELSE ret.maxResults
        /\ ret.result.retrievedCount <= ret.maxResults
        /\ Len(ret.calls) = 3 =>
              /\ ret.calls[3].fn = "generate_answer"
              /\ Len(ret.calls[3].retrievedContext) <= ret.maxResults
              /\ ret.result.retrievedCount =
                    Len(ret.calls[3].retrievedContext)

\* C28 witness: with re-ranking enabled and maxResults 1 the engine was
\* asked for 3 candidates and returned 3, of which one went to the generator
C28_Witness ==
    /\ ret.op = "process_query"
    /\ Len(ret.calls) = 3
    /\ ret.enableReranking
    /\ ret.maxResults = 1
    /\ ret.calls[1].topResults = 3
    /\ Len(ret.calls[1].returned) = 3
    /\ Len(ret.calls[3].retrievedContext) = 1
    /\ ret.result.retrievedCount = 1

(***************************************************************************)
(* _update_chat_session called by several threads on one session, one     *)
(* step per statement; the store has no lock (SpecSharedSession)           *)
(***************************************************************************)
SharedSession == "s1"

\* the calls made on the shared session: the first thread fills it beyond
\* the cap, the second thread makes one call at any moment in between
MaxSharedAppends == 11
CallBudget(t) == IF t = "t1" THEN MaxSharedAppends ELSE 1

AnswerDocs == <<"t","h","e"," ","d","o","c","s">>

\* each thread serves its own request: the query and the generated answer
\* it passes to _update_chat_session
ThreadQuery(t) == IF t = "t1" THEN WordPlan ELSE WordDocs
ThreadAnswer(t) == IF t = "t1" THEN AnswerPlain ELSE AnswerDocs

\* thread t moves to position pc
Goto(t, pc) == threads' = [threads EXCEPT ![t].pc = pc]

SharedFrame ==
    UNCHANGED <<cache, now, hit_count, total_requests, query, args, llm, ret,
                cacheHist, nCalls, rerankerEnabled>>

\* the call returns
Finish(t) ==
    /\ threads' = [threads EXCEPT ![t] = [pc |-> "idle", calls |-> @.calls]]
    /\ appends' = [appends EXCEPT ![SharedSession] = @ + 1]

\* line 185: if sessionId not in self.chatSessions
UpdateCheck(t) ==
    /\ threads[t].pc = "idle"
    /\ threads[t].calls < CallBudget(t)
    /\ threads' = [threads EXCEPT ![t] =
           [pc |-> IF SharedSession \in DOMAIN chatSessions
                   THEN "append_user" ELSE "create",
            calls |-> @.calls + 1]]
    /\ UNCHANGED <<chatSessions, appends>>
    /\ SharedFrame

\* line 186: self.chatSessions[sessionId] = []
UpdateCreate(t) ==
    /\ threads[t].pc = "create"
    /\ chatSessions' = Put(chatSessions, SharedSession, <<>>)
    /\ Goto(t, "append_user")
    /\ UNCHANGED appends
    /\ SharedFrame

\* lines 189-193: append of the user turn
UpdateAppendUser(t) ==
    /\ threads[t].pc = "append_user"
    /\ chatSessions' =
          [chatSessions EXCEPT ![SharedSession] =
              Append(@, [role |-> "user", content |-> ThreadQuery(t),
                         timestamp |-> now])]
    /\ Goto(t, "append_assistant")
    /\ UNCHANGED appends
    /\ SharedFrame

\* lines 196-200: append of the assistant turn
UpdateAppendAssistant(t) ==
    /\ threads[t].pc = "append_assistant"
    /\ chatSessions' =
          [chatSessions EXCEPT ![SharedSession] =
              Append(@, [role |-> "assistant", content |-> ThreadAnswer(t),
                         timestamp |-> now])]
    /\ Goto(t, "check_len")
    /\ UNCHANGED appends
    /\ SharedFrame

\* line 203: if len(self.chatSessions[sessionId]) > 20
UpdateCheckLen(t) ==
    /\ threads[t].pc = "check_len"
    /\ IF Len(chatSessions[SharedSession]) > MaxTurns
       THEN Goto(t, "slice") /\ UNCHANGED appends
       ELSE Finish(t)
    /\ UNCHANGED chatSessions
    /\ SharedFrame

\* line 204, right-hand side: self.chatSessions[sessionId][-20:]
UpdateSlice(t) ==
    /\ threads[t].pc = "slice"
    /\ LET h == chatSessions[SharedSession]
       IN  threads' = [threads EXCEPT ![t] =
                [pc |-> "store", calls |-> @.calls,
                 kept |-> IF Len(h) > MaxTurns
                          THEN SubSeq(h, Len(h) - MaxTurns + 1, Len(h))
                          ELSE h]]
    /\ UNCHANGED <<chatSessions, appends>>
    /\ SharedFrame

\* line 204, assignment: self.chatSessions[sessionId] = ...
UpdateStore(t) ==
    /\ threads[t].pc = "store"
    /\ chatSessions' = Put(chatSessions, SharedSession, threads[t].kept)
    /\ Finish(t)
    /\ SharedFrame


\* a reader of the shared session between two steps of the writers
SharedHistoryStep == ret = NoCall /\ HistoryCall(SharedSession)

NextSharedSession ==
    \/ ret = NoCall /\ \E t \in ThreadIds : UpdateCheck(t)
    \/ ret = NoCall /\ \E t \in ThreadIds : UpdateCreate(t)
    \/ ret = NoCall /\ \E t \in ThreadIds : UpdateAppendUser(t)
    \/ ret = NoCall /\ \E t \in ThreadIds : UpdateAppendAssistant(t)
    \/ ret = NoCall /\ \E t \in ThreadIds : UpdateCheckLen(t)
    \/ ret = NoCall /\ \E t \in ThreadIds : UpdateSlice(t)
    \/ ret = NoCall /\ \E t \in ThreadIds : UpdateStore(t)
    \/ SharedHistoryStep
    \/ Return

InitSharedSession ==
    /\ cache = EmptyDict
    /\ now = 0
    /\ chatSessions = EmptyDict
    /\ hit_count = 0
    /\ total_requests = 0
    /\ query = <<>>
    /\ args = <<>>
    /\ llm = NoLlm
    /\ threads = [t \in ThreadIds |-> [pc |-> "idle", calls |-> 0]]
    /\ ret = NoCall
    /\ cacheHist = NoHist
    /\ nCalls = 0
    /\ appends = NoAppends
    /\ rerankerEnabled = TRUE

SpecSharedSession == InitSharedSession /\ [][NextSharedSession]_vars

\* the answer generated for the request that asked q
AnswerTo(q) == IF q = WordPlan THEN AnswerPlain ELSE AnswerDocs

\* every user turn of h has the assistant turn of its request right after it
Paired(h) ==
    \A i \in 1..Len(h) :
        h[i].role = "user" =>
            /\ i < Len(h)
            /\ h[i + 1].role = "assistant"
            /\ h[i + 1].content = AnswerTo(h[i].content)

\* no call on the shared session is in progress
Quiescent == \A t \in ThreadIds : threads[t].pc = "idle"

\* once the calls have returned the session holds all the turns appended,
\* the oldest in excess of 20 apart
NoTurnLost ==
    (Quiescent /\ appends[SharedSession] > 0) =>
        Len(chatSessions[SharedSession])
            = Min(2 * appends[SharedSession], MaxTurns)

\* C24: with several calls appending to one session concurrently, the
\* history loses no appended turn except through the 20-turn cap, no reader
\* sees a user turn without the assistant turn of the same request right
\* after it, and no reader sees more than 20 turns.
C24_SharedSessionSafe ==
    /\ NoTurnLost
    /\ ret.op = "get_chat_history" =>
          /\ Paired(ret.result)
          /\ Len(ret.result) <= MaxTurns

(***************************************************************************)
(* SimpleCacheManager.get and set called by several threads, one step per  *)
(* statement; the cache has no lock (SpecSharedCache)                      *)
(***************************************************************************)
\* the calls started on the shared cache, all threads together
MaxSharedCalls == 3

SharedCacheQueries == {WordPlan, WordDocs}
SharedCacheData == [answer |-> "r1"]

CallsStarted == threads["t1"].calls + threads["t2"].calls

CacheFrame ==
    UNCHANGED <<now, chatSessions, hit_count, total_requests, query, args,
                llm, ret, cacheHist, nCalls, appends, rerankerEnabled>>

\* the call of thread t ends: it returns, or it raises error
EndCall(t, error) ==
    threads' = [threads EXCEPT ![t] =
                  [pc |-> "ended", calls |-> @.calls, error |-> error]]

\* lines 19-21 of get: key = self._get_key(...); if key in self.cache
GetCheck(t) ==
    /\ threads[t].pc = "idle"
    /\ CallsStarted < MaxSharedCalls
    /\ \E q \in SharedCacheQueries, m \in CacheModes :
         LET key == get_key(q, m)
         IN  IF key \in DOMAIN cache
             THEN threads' = [threads EXCEPT ![t] =
                     [pc |-> "get_read", calls |-> @.calls + 1, key |-> key]]
             ELSE threads' = [threads EXCEPT ![t] =
                     [pc |-> "ended", calls |-> @.calls + 1,
                      error |-> "none"]]
    /\ UNCHANGED cache
    /\ CacheFrame

\* line 22: cached_item = self.cache[key]
GetRead(t) ==
    /\ threads[t].pc = "get_read"
    /\ IF threads[t].key \in DOMAIN cache
       THEN threads' = [threads EXCEPT ![t] =
               [pc |-> "get_test", calls |-> @.calls, key |-> @.key,
                cached_item |-> cache[@.key]]]
       ELSE EndCall(t, "KeyError")
    /\ UNCHANGED cache
    /\ CacheFrame

\* lines 23-24: if time.time() - cached_item["timestamp"] < self.ttl_seconds
GetTest(t) ==
    /\ threads[t].pc = "get_test"
    /\ IF now - threads[t].cached_item.timestamp < ttl_seconds
       THEN EndCall(t, "none")
       ELSE threads' = [threads EXCEPT ![t] =
               [pc |-> "get_del", calls |-> @.calls, key |-> @.key]]
    /\ UNCHANGED cache
    /\ CacheFrame

\* line 26: del self.cache[key]
GetDel(t) ==
    /\ threads[t].pc = "get_del"
    /\ IF threads[t].key \in DOMAIN cache
       THEN cache' = Del(cache, threads[t].key) /\ EndCall(t, "none")
       ELSE UNCHANGED cache /\ EndCall(t, "KeyError")
    /\ CacheFrame

\* line 32 of set: if len(self.cache) >= self.max_size
SetCheck(t) ==
    /\ threads[t].pc = "idle"
    /\ CallsStarted < MaxSharedCalls
    /\ \E q \in SharedCacheQueries, m \in CacheModes :
         threads' = [threads EXCEPT ![t] =
             [pc |-> IF Cardinality(DOMAIN cache) >= max_size
                     THEN "set_min" ELSE "set_put",
              calls |-> @.calls + 1, q |-> q, mode |-> m]]
    /\ UNCHANGED cache
    /\ CacheFrame

\* line 34: oldest_key = min(self.cache.keys(), key=...)
SetMin(t) ==
    /\ threads[t].pc = "set_min"
    /\ IF DOMAIN cache = {}
       THEN EndCall(t, "ValueError")
       ELSE \E oldest_key \in OldestKeys(cache) :
              threads' = [threads EXCEPT ![t] =
                 [pc |-> "set_del", calls |-> @.calls, q |-> @.q,
                  mode |-> @.mode, oldest_key |-> oldest_key]]
    /\ UNCHANGED cache
    /\ CacheFrame

\* line 35: del self.cache[oldest_key]
SetDel(t) ==
    /\ threads[t].pc = "set_del"
    /\ IF threads[t].oldest_key \in DOMAIN cache
       THEN /\ cache' = Del(cache, threads[t].oldest_key)
            /\ threads' = [threads EXCEPT ![t] =
                  [pc |-> "set_put", calls |-> @.calls, q |-> @.q,
                   mode |-> @.mode]]
       ELSE UNCHANGED cache /\ EndCall(t, "KeyError")
    /\ CacheFrame

\* lines 37-41: self.cache[key] = {"data": data, "timestamp": time.time()}
SetPut(t) ==
    /\ threads[t].pc = "set_put"
    /\ cache' = Put(cache, get_key(threads[t].q, threads[t].mode),
                    [data |-> SharedCacheData, timestamp |-> now,
                     by |-> [q |-> lower_stripped(threads[t].q),
                             mode |-> threads[t].mode]])
    /\ EndCall(t, "none")
    /\ CacheFrame

\* the caller takes the outcome of its call
ThreadReturn(t) ==
    /\ threads[t].pc = "ended"
    /\ threads' = [threads EXCEPT ![t] = [pc |-> "idle", calls |-> @.calls]]
    /\ UNCHANGED cache
    /\ CacheFrame


InitSharedCache ==
    /\ cache = EmptyDict
    /\ now = 0
    /\ chatSessions = EmptyDict
    /\ hit_count = 0
    /\ total_requests = 0
    /\ query = <<>>
    /\ args = <<>>
    /\ llm = NoLlm
    /\ threads = [t \in ThreadIds |-> [pc |-> "idle", calls |-> 0]]
    /\ ret = NoCall
    /\ cacheHist = NoHist
    /\ nCalls = 0
    /\ appends = NoAppends
    /\ rerankerEnabled = TRUE

NextSharedCache ==
    \/ Tick
    \/ \E t \in ThreadIds : GetCheck(t)
    \/ \E t \in ThreadIds : GetRead(t)
    \/ \E t \in ThreadIds : GetTest(t)
    \/ \E t \in ThreadIds : GetDel(t)
    \/ \E t \in ThreadIds : SetCheck(t)
    \/ \E t \in ThreadIds : SetMin(t)
    \/ \E t \in ThreadIds : SetDel(t)
    \/ \E t \in ThreadIds : SetPut(t)
    \/ \E t \in ThreadIds : ThreadReturn(t)

SpecSharedCache == InitSharedCache /\ [][NextSharedCache]_vars

\* C25: with store and lookup calls running concurrently on the shared
\* cache, the number of stored entries never exceeds the capacity and no
\* call fails because another call evicted or purged the same entry first.
C25_SharedCacheSafe ==
    /\ Cardinality(DOMAIN cache) <= max_size
    /\ \A t \in ThreadIds :
         threads[t].pc = "ended" => threads[t].error = "none"

(***************************************************************************)
(* Claims about the effect of lookups on the eviction order (SpecCache)    *)
(***************************************************************************)
\* C31: a lookup that finds an unexpired entry leaves the entries of the
\* cache and their creation timestamps unchanged, so the entries that the
\* next store may evict are the same before and after the lookup.
C31_LookupKeepsOrder ==
    [][\A q \in GetQueries, m \in CacheModes :
         (CacheGetCall(q, m) /\ ret'.outcome = "hit") =>
            /\ cache' = cache
            /\ \A k \in DOMAIN cache :
                 cache'[k].timestamp = cache[k].timestamp
            /\ OldestKeys(cache') = OldestKeys(cache)]_vars

\* C31 witness: a lookup returned the newer of the two entries of a full
\* cache at a later clock reading, and the older entry is still the only
\* one the next store may evict
C31_Witness ==
    /\ ret.op = "get"
    /\ ret.outcome = "hit"
    /\ Size(cache) = max_size
    /\ now > cache[get_key(ret.q, ret.mode)].timestamp
    /\ get_key(ret.q, ret.mode) \notin OldestKeys(cache)

(***************************************************************************)
(* Claims about the cache statistics (Spec)                                *)
(***************************************************************************)
\* SimpleCacheManager.get_stats with the counters process_query keeps on the
\* cache object; hit_rate is the quotient num / den
get_stats(c, hitCount, totalRequests) ==
    [total_items |-> Cardinality(DOMAIN c),
     max_size |-> max_size,
     hit_rate |-> [num |-> hitCount,
                   den |-> IF totalRequests > 1 THEN totalRequests ELSE 1]]

\* C32: the statistics count every lookup, one hit for a lookup that
\* returns a value and one miss for a lookup that returns absent (so the
\* lookups made are hit_count + total_requests), the reported hit_rate is
\* the hits divided by all lookups, the hit count never exceeds the total
\* request count and hit_rate lies between 0 and 1.
C32_HitRate ==
    LET stats == get_stats(cache, hit_count, total_requests)
        lookups == hit_count + total_requests
    IN  /\ stats.hit_rate.num * lookups = hit_count * stats.hit_rate.den
        /\ hit_count <= total_requests
        /\ 0 <= stats.hit_rate.num
        /\ stats.hit_rate.num <= stats.hit_rate.den

(***************************************************************************)
(* RagRetrievalService._enhance_query_with_context (SpecEnhance)           *)
(***************************************************************************)
\* the last n elements of s: s[-n:]
LastN(s, n) == IF Len(s) > n THEN SubSeq(s, Len(s) - n + 1, Len(s)) ELSE s

RECURSIVE ContextTermsOf(_, _)
\* lines 164-168: the words longer than 3 characters of the messages whose
\* role satisfies the test, in order
ContextTermsOf(messages, roles) ==
    IF messages = <<>> THEN <<>>
    ELSE (IF messages[1].role \in roles
          THEN SelectSeq(Split(messages[1].content), LAMBDA w : Len(w) > 3)
          ELSE <<>>)
         \o ContextTermsOf(Tail(messages), roles)

\* list(set(contextTerms)): the distinct terms in the order in which the
\* set yields them, which depends on the hashes of the strings; hashOrder
\* lists the words in that order
ListOfSet(terms, hashOrder) ==
    SelectSeq(hashOrder, LAMBDA w : w \in Range(terms))

\* the enhancement that takes its terms from the turns of both roles
enhance_query_with_context_AnyRole(q, chatHistory, hashOrder) ==
    IF chatHistory = <<>> THEN q
    ELSE LET contextTerms == ContextTermsOf(LastN(chatHistory, 6),
                                            {"user", "assistant"})
         IN  IF contextTerms # <<>>
             THEN q \o <<" ">>
                    \o JoinWords(Take(ListOfSet(contextTerms, hashOrder), 3))
             ELSE q

\* _enhance_query_with_context
enhance_query_with_context(q, chatHistory, hashOrder) ==
    IF chatHistory = <<>> THEN q
    ELSE LET recentMessages == LastN(chatHistory, 6)
             contextTerms == ContextTermsOf(recentMessages, {"user"})
         IN  IF contextTerms # <<>>
             THEN LET uniqueContextTerms ==
                          Take(ListOfSet(contextTerms, hashOrder), 3)
                  IN  q \o <<" ">> \o JoinWords(uniqueContextTerms)
             ELSE q

\* the histories a session can hold: up to MaxPairs user/assistant pairs
MaxPairs == 4
WordWeather == <<"w","e","a","t","h","e","r">>
WordReport == <<"r","e","p","o","r","t">>
WordBudget == <<"b","u","d","g","e","t">>
EnhanceUserContents ==
    {JoinWords(<<WordPlan, WordDocs>>),
     JoinWords(<<QueryHi, <<"a","l","l">> >>),
     JoinWords(<<WordPlan, WordPlan>>),
     JoinWords(<<WordWeather, WordReport, WordPlan, WordDocs>>)}
EnhanceAssistantContent == JoinWords(<<<<"t","h","e">>, WordBudget>>)
EnhancePairs ==
    {<<[role |-> "user", content |-> u, timestamp |-> 0],
       [role |-> "assistant", content |-> EnhanceAssistantContent,
        timestamp |-> 0]>> : u \in EnhanceUserContents}

RECURSIVE Flatten(_)
Flatten(ss) == IF ss = <<>> THEN <<>> ELSE ss[1] \o Flatten(Tail(ss))

EnhanceHistories ==
    {Flatten(ps) : ps \in UNION {[1..n -> EnhancePairs] : n \in 0..MaxPairs}}
EnhanceQueries == {WordPlan, JoinWords(<<WordDocs, WordBudget>>)}

\* the words of the contents above that are longer than 3 characters, and
\* the orders in which a set of strings may yield them
EnhanceWords == {WordPlan, WordDocs, WordWeather, WordReport, WordBudget}
HashOrders ==
    {f \in [1..Cardinality(EnhanceWords) -> EnhanceWords] :
        \A i, j \in 1..Cardinality(EnhanceWords) : f[i] = f[j] => i = j}

\* a caller invoking _enhance_query_with_context(query, chatHistory)
EnhanceCall ==
    /\ ret = NoCall
    /\ \E hashOrder \in HashOrders :
         ret' = [op |-> "enhance_query_with_context",
                 result |-> enhance_query_with_context(
                                query, args.chatHistory, hashOrder)]
    /\ UNCHANGED <<cache, now, chatSessions, hit_count, total_requests,
                   query, args, llm, threads, cacheHist, nCalls, appends,
                   rerankerEnabled>>

InitEnhance ==
    /\ cache = EmptyDict
    /\ now = 0
    /\ chatSessions = EmptyDict
    /\ hit_count = 0
    /\ total_requests = 0
    /\ query \in EnhanceQueries
    /\ args \in [chatHistory : EnhanceHistories]
    /\ llm = NoLlm
    /\ threads = NoThreads
    /\ ret = NoCall
    /\ cacheHist = NoHist
    /\ nCalls = 0
    /\ appends = NoAppends
    /\ rerankerEnabled = TRUE

NextEnhance == EnhanceCall

SpecEnhance == InitEnhance /\ [][NextEnhance]_vars

\* the words longer than 3 characters of the user turns among the last 6
\* turns of a history
UserTerms(h) ==
    UNION {{w \in Range(Split(h[i].content)) : Len(w) > 3} :
              i \in {j \in 1..Len(h) : j > Len(h) - 6 /\ h[j].role = "user"}}

\* C33: context enhancement returns the optimized query unchanged when the
\* history is empty or yields no term; otherwise it returns the query
\* followed by at most 3 pairwise distinct terms, each a word longer than 3
\* characters of a user turn among the last 6 turns of the session.
C33_Enhancement ==
    ret.op = "enhance_query_with_context" =>
        LET h == args.chatHistory
        IN  IF h = <<>> \/ UserTerms(h) = {}
            THEN ret.result = query
            ELSE \E n \in 1..3 :
                   \E terms \in [1..n -> UserTerms(h)] :
                     /\ \A i, j \in 1..n : terms[i] = terms[j] => i = j
                     /\ ret.result = query \o <<" ">> \o JoinWords(terms)

\* C33 witness: a history of 8 turns whose first user turn alone has the
\* word "weather" and whose last 6 turns give two terms; the query came
\* back with these two
C33_Witness ==
    /\ ret.op = "enhance_query_with_context"
    /\ Len(args.chatHistory) = 8
    /\ args.chatHistory[1].content =
          JoinWords(<<WordWeather, WordReport, WordPlan, WordDocs>>)
    /\ UserTerms(args.chatHistory) = {WordPlan, WordDocs}
    /\ ret.result = query \o <<" ">> \o JoinWords(<<WordDocs, WordPlan>>)

(***************************************************************************)
(* Claims about what process_query leaves in the sessions (Spec)           *)
(***************************************************************************)
\* C34: after a call of process_query whose generation succeeded, the
\* last assistant turn stored in the session of the request holds the answer
\* returned to the caller, the one that went through output validation.
C34_SessionHoldsReturnedAnswer ==
    (ret.op = "process_query" /\ ReachedGeneration(ret)) =>
        /\ ret.sessionId \in DOMAIN chatSessions
        /\ LET h == chatSessions[ret.sessionId]
           IN  /\ Len(h) >= 2
               /\ h[Len(h)].role = "assistant"
               /\ h[Len(h)].content = ret.result.answer

\* C35: a call of process_query whose query validate_query rejects never
\* returns success = true, a cache entry stored for a query with the same
\* case-folded and trimmed text notwithstanding.
C35_RejectedNeverSucceeds ==
    (ret.op = "process_query" /\ ~validation(ret.q).isValid) =>
        ~ret.result.success

\* C36: process_query appends to a session exactly when the generation of
\* the request reported success, and then appends one user/assistant pair
\* to the session of the request; the calls served from the cache, rejected,
\* finding no passage, failing in generation or ending in an internal error
\* leave every session as it was.
C36_AppendsOnGenerationSuccess ==
    [][IsProcessQueryStep =>
        IF ReachedGeneration(ret')
        THEN LET sid == ret'.sessionId
                 old == Get(chatSessions, sid, <<>>)
                 new == Get(chatSessions', sid, <<>>)
             IN  /\ DOMAIN chatSessions' = (DOMAIN chatSessions) \cup {sid}
                 /\ \A other \in (DOMAIN chatSessions) \ {sid} :
                       chatSessions'[other] = chatSessions[other]
                 /\ Len(new) = Min(Len(old) + 2, MaxTurns)
                 /\ new[Len(new) - 1].role = "user"
                 /\ new[Len(new) - 1].content = ret'.q
                 /\ new[Len(new)].role = "assistant"
                 /\ SubSeq(new, 1, Len(new) - 2) =
                       LastN(old, Len(new) - 2)
        ELSE chatSessions' = chatSessions]_vars

\* C36 witness: a call whose generation succeeded has appended the first
\* pair of session s2 while session s1 holds the pair of an earlier call
C36_Witness ==
    /\ ret.op = "process_query"
    /\ ReachedGeneration(ret)
    /\ ret.sessionId = "s2"
    /\ DOMAIN chatSessions = {"s1", "s2"}
    /\ Len(chatSessions["s1"]) = 2
    /\ Len(chatSessions["s2"]) = 2
    /\ chatSessions["s2"][1].content = ret.q

(***************************************************************************)
(* Two runs of the service side by side (SpecIsolation): the same          *)
(* requests reach both, the answer generator is the same function of what  *)
(* it is sent in both, and in the second run one session is cleared at     *)
(* some point. The first run lives in the variables of the service, the    *)
(* second in args.                                                         *)
(***************************************************************************)
MaxTwinCalls == 3

TwinQueries == {WordPlan}
TwinModes == {ModeBm25, ModeHybrid}
NoSession == "none"

\* the model behind Ollama either answers from the documents alone or takes
\* the "Previous Conversation" part of its prompt into account
LlmPolicies == {"documents_only", "uses_conversation"}

\* OllamaLlmClient._build_conversation_history: the last 5 messages
build_conversation_history(chatHistory) == LastN(chatHistory, 5)

\* what the backend answers to the prompt made of the query, the context
\* documents and the conversation history
LlmReply(policy, userQuery, chatHistory) ==
    [kind |-> "ok",
     answer |-> IF /\ policy = "uses_conversation"
                   /\ build_conversation_history(chatHistory) # <<>>
                THEN AnswerDocs ELSE AnswerPlain]

\* the service of the first run
FirstRun ==
    [cache |-> cache, now |-> now, chatSessions |-> chatSessions,
     hit_count |-> hit_count, total_requests |-> total_requests,
     rerankerEnabled |-> rerankerEnabled]

\* the service of the second run
SecondRun ==
    [cache |-> args.cache, now |-> now, chatSessions |-> args.chatSessions,
     hit_count |-> args.hit_count, total_requests |-> args.total_requests,
     rerankerEnabled |-> rerankerEnabled]

\* what the surroundings do during a call on the service st
TwinEnvs(st, q, sid, mode) ==
    [search : {[raises |-> FALSE, found |-> 2]},
     predicted : Predictions,
     gen : {LlmReply(llm.policy, q, Get(st.chatSessions, sid, <<>>))},
     victim : Victims(cache_get(st.cache, st.now, q, mode).cache)]

\* the same request is served in both runs
TwinQueryStep ==
    /\ ret = NoCall
    /\ nCalls < MaxTwinCalls
    /\ \E q \in TwinQueries, sid \in SessionIds, mode \in TwinModes :
       \E env1 \in TwinEnvs(FirstRun, q, sid, mode),
          env2 \in TwinEnvs(SecondRun, q, sid, mode) :
       \E out1 \in {process_query_in(FirstRun, q, sid, mode, 2, TRUE, env1)},
          out2 \in {process_query_in(SecondRun, q, sid, mode, 2, TRUE, env2)} :
            /\ nCalls' = nCalls + 1
            /\ cache' = out1.cache
            /\ chatSessions' = out1.chatSessions
            /\ hit_count' = out1.hit_count
            /\ total_requests' = out1.total_requests
            /\ args' = [args EXCEPT !.cache = out2.cache,
                                    !.chatSessions = out2.chatSessions,
                                    !.hit_count = out2.hit_count,
                                    !.total_requests = out2.total_requests]
            /\ ret' = [op |-> "process_query", q |-> q, sessionId |-> sid,
                       mode |-> mode, result |-> out1.result,
                       served |-> out1.served,
                       twinResult |-> out2.result,
                       sameHistory |->
                            Get(chatSessions, sid, <<>>)
                                = Get(args.chatSessions, sid, <<>>)]
            /\ UNCHANGED <<now, query, llm, threads, cacheHist, appends,
                           rerankerEnabled>>

\* clear_chat_session(sid) is called in the second run only: from here on
\* the runs differ in the history of sid
TwinClearStep ==
    /\ ret = NoCall
    /\ args.differs = NoSession
    /\ \E sid \in DOMAIN args.chatSessions :
        /\ args' = [args EXCEPT
                        !.chatSessions =
                            clear_chat_session(@, sid).chatSessions,
                        !.differs = sid]
        /\ UNCHANGED <<cache, now, chatSessions, hit_count, total_requests,
                       query, llm, threads, ret, cacheHist, nCalls, appends,
                       rerankerEnabled>>

InitIsolation ==
    /\ cache = EmptyDict
    /\ now = 0
    /\ chatSessions = EmptyDict
    /\ hit_count = 0
    /\ total_requests = 0
    /\ query = <<>>
    /\ args = [cache |-> EmptyDict, chatSessions |-> EmptyDict,
               hit_count |-> 0, total_requests |-> 0, differs |-> NoSession]
    /\ llm \in {[pc |-> "idle", policy |-> p] : p \in LlmPolicies}
    /\ threads = NoThreads
    /\ ret = NoCall
    /\ cacheHist = NoHist
    /\ nCalls = 0
    /\ appends = NoAppends
    /\ rerankerEnabled = TRUE

NextIsolation == TwinQueryStep \/ TwinClearStep \/ Return

SpecIsolation == InitIsolation /\ [][NextIsolation]_vars

\* C37: a request of a session other than the one whose history differs
\* between the two runs, its own history being the same in both, receives
\* the same result in both runs.
C37_SessionIsolation ==
    (/\ ret.op = "process_query"
     /\ ret.sessionId # args.differs
     /\ ret.sameHistory)
        => ret.result = ret.twinResult

\* given the same cache, the result of a call does not change with the
\* history of another session
FreshResultsAgree ==
    (/\ ret.op = "process_query"
     /\ ret.sessionId # args.differs
     /\ ret.sameHistory
     /\ ret.served = "fresh")
        => ret.result = ret.twinResult

(***************************************************************************)
(* The session store under requests, appends and clears of one worker      *)
(* (SpecStore)                                                             *)
(***************************************************************************)
\* _update_chat_session called with one exchange, on either session
StoreAppendStep ==
    /\ ret = NoCall
    /\ SumOver(appends, SessionIds) < MaxAppends
    /\ \E sid \in SessionIds : AppendCall(sid, WordPlan, AnswerPlain)

\* one request served somewhere among the appends and clears
StoreQueryStep ==
    /\ nCalls = 0
    /\ ProcessQueryStep

NextStore ==
    StoreQueryStep \/ StoreAppendStep \/ ClearSessionStep \/ Return

SpecStore == Init /\ [][NextStore]_vars

\* the turns of h are user, assistant, user, assistant, ...
Alternates(h) ==
    \A i \in 1..Len(h) :
        h[i].role = IF i % 2 = 1 THEN "user" ELSE "assistant"

\* C38: every stored session has an even length between 2 and 20 and its
\* turns alternate user, assistant, starting with a user turn.
C38_SessionShape ==
    \A sid \in DOMAIN chatSessions :
        LET h == chatSessions[sid]
        IN  /\ Len(h) % 2 = 0
            /\ 2 <= Len(h)
            /\ Len(h) <= 20
            /\ Alternates(h)

\* C38 witness: a session that received more than 10 exchanges, the last
\* one from process_query, holds 20 turns and is the only one stored
C38_Witness ==
    /\ ret.op = "process_query"
    /\ appends[ret.sessionId] > 10
    /\ ret.sessionId \in DOMAIN chatSessions
    /\ Len(chatSessions[ret.sessionId]) = 20
    /\ chatSessions[ret.sessionId][20].content # AnswerPlain
    /\ DOMAIN chatSessions = {ret.sessionId}

(***************************************************************************)
(* Claims about the entry set() evicts (SpecCache, where the clock only    *)
(* moves forward)                                                          *)
(***************************************************************************)
\* the entry stored at time ts is within its TTL at time t (the test of
\* get(), cache_manager.py line 22)
WithinTtl(ts, t) == t - ts < ttl_seconds

IsEvictingSet == ret = NoCall /\ ret'.op = "set" /\ ret'.evicted # NoKey

\* C39: the entry a set() evicts is stored at least as long as every other
\* entry, and if it is still within its TTL then no entry whose TTL has
\* elapsed is left in the cache.
C39_EvictsLongestStored ==
    [][IsEvictingSet =>
        LET v == ret'.evicted
        IN  /\ v \in DOMAIN cache
            /\ \A j \in DOMAIN cache :
                    cache[v].timestamp <= cache[j].timestamp
            /\ WithinTtl(cache[v].timestamp, now)
                => \A j \in DOMAIN cache' :
                        WithinTtl(cache'[j].timestamp, now)]_vars

\* C39 witness: a set() into a full cache has evicted an entry whose TTL
\* had elapsed and left an earlier entry that is still within its TTL
C39_Witness ==
    /\ ret.op = "set"
    /\ ret.evicted # NoKey
    /\ ret.evicted \notin DOMAIN cache
    /\ ~WithinTtl(ret.evictedAt, now)
    /\ \E j \in DOMAIN cache :
        /\ cache[j].timestamp < now
        /\ cache[j].timestamp > ret.evictedAt
        /\ WithinTtl(cache[j].timestamp, now)
====
